---- MODULE Spec2Model ----
(***************************************************************************)
(* Model of src/py_files/api_bls.py: class BlsApiCall.  The quota ledger   *)
(* (_read_query, _create_query_file, _increment_query_count), the request  *)
(* executor bls_request with its retry loop, and the batching loop of      *)
(* extract.  The quota file outputs/runtime_output/query_count.txt is the  *)
(* variable file; datetime.now() is the variable today; requests.post is   *)
(* an environment that answers every attempt with any response of          *)
(* Responses.                                                              *)
(*                                                                         *)
(* The program reads the first and the last line of the quota file and     *)
(* nothing between them, and it writes the file by replacing it with one   *)
(* line or by appending one line.  The variable file therefore holds the   *)
(* number of lines, the first line and the last line, each <<count, day>>. *)
(***************************************************************************)
EXTENDS Integers, Sequences, FiniteSets, TLC

\* ------------------------------------------------------------------------
\* Program constants
\* ------------------------------------------------------------------------
QUOTA_LIMIT == 500
RETRIES_Four == 3 + 1
RETRIES == 3
YEAR_LIMIT == 20
SERIES_LIMIT == 50
BATCH_SIZE == 50
HTTP_OK == 200
\* Mutant: every 5xx status is retried.
retry_codes_All5xx == {500, 501, 502, 503, 504}
retry_codes == {500, 502, 503, 504}
URL_ENDPOINT == "https://api.bls.gov/publicAPI/v2/timeseries/data/"
API_KEY == "API_KEY"

\* ------------------------------------------------------------------------
\* Bounds of the model
\* ------------------------------------------------------------------------
MaxDay == 3
MaxTicks == 1
MaxCalls == 1
MaxIds == 101
MaxPoints == 2
MaxResponses == 2
MaxRuns == 2
MaxRows == 3
MaxPieces == 3
MaxReruns == 3

\* ------------------------------------------------------------------------
\* Values
\* ------------------------------------------------------------------------
\* An attribute of self that no statement has assigned yet.
UNSET == -1

Days == 1..MaxDay

\* HTTP status codes requests.post answers with, besides 200 and retry_codes.
OtherCodes == {400, 501}

NoJson == [status |-> "", tag |-> ""]

Jsons ==
    {[status |-> "REQUEST_SUCCEEDED", tag |-> "A"], [status |-> "REQUEST_SUCCEEDED", tag |-> "B"],
     [status |-> "REQUEST_NOT_PROCESSED", tag |-> "A"]}

\* What one call of requests.post does: raise an exception that is no
\* HTTPError, or return a response with a status code and, for 200, a JSON body.
Responses ==
    {[raises |-> TRUE, status_code |-> 0, json |-> NoJson]}
    \cup {[raises |-> FALSE, status_code |-> c, json |-> NoJson] : c \in retry_codes \cup OtherCodes}
    \cup {[raises |-> FALSE, status_code |-> HTTP_OK, json |-> j] : j \in Jsons}

IdList(n) == [i \in 1..n |-> i]

NoFile == [exists |-> FALSE, n |-> 0, first |-> <<0, 0>>, last |-> <<0, 0>>]

\* The file k same-day ledger steps leave behind when they start from no
\* file: the lines <<1, d>>, ..., <<k, d>>.
FileOf(k, d) == [exists |-> TRUE, n |-> k, first |-> <<1, d>>, last |-> <<k, d>>]

\* open(file, "w") and one write.
WriteFile(line) == [exists |-> TRUE, n |-> 1, first |-> line, last |-> line]

\* open(file, "a") and one write.
AppendFile(f, line) ==
    IF f.exists /\ f.n > 0
    THEN [f EXCEPT !.n = f.n + 1, !.last = line]
    ELSE WriteFile(line)

NoOutcome == [kind |-> "none", msg |-> "", status |-> 0, value |-> NoJson]

Returned(j) == [kind |-> "return", msg |-> "", status |-> 0, value |-> j]

Raised(k, m, s) == [kind |-> k, msg |-> m, status |-> s, value |-> NoJson]

MSG_QUOTA == "Queries may not exceed 500 within a day."
MSG_SERIES == "Can only take up to 50 seriesID's per query."
MSG_YEARS == "Can only take in up to 20 years per query."
MSG_NOT_SUCCEEDED == "Response Status from API is not \"REQUEST_SUCCEEDED\""
MSG_HTTP == "HTTP Error: "
MSG_API == "API Error: "

LogEntry(l, m, n) == [level |-> l, msg |-> m, n |-> n]

VARIABLES
    file,          \* the quota file: exists, number of lines, first and last line
    today,         \* day of month datetime.now() gives
    ticks,         \* how often the day has changed
    obj,           \* the attributes of the BlsApiCall instance
    pc,            \* position of the running call
    series,        \* bls_request: argument series
    start_year,    \* bls_request: argument start_year
    end_year,      \* bls_request: argument end_year
    attempt,       \* bls_request: loop variable
    final_error,   \* bls_request: local final_error
    responses,     \* what requests.post did, per call of it, since bls_request began
    sent,          \* the requests handed to requests.post since bls_request began
    log,           \* records given to logging since bls_request began
    sleeps,        \* arguments of time.sleep inside bls_request since it began
    outcome,       \* how the last bls_request ended
    calls,         \* number of bls_request calls made by the test driver
    steps,         \* number of ledger steps made by the test driver
    hist,          \* history: persisted counts seen by the current bls_request
    epc,           \* position of extract: "none" while extract is not running
    series_df,     \* the seriesID column of the series list given to __init__
    series_id_lst, \* extract: local series_id_lst
    batch_progress, \* extract: local batch_progress, the identifiers batched so far
    lst_of_queries, \* self.lst_of_queries
    pauses,        \* number of time.sleep(0.25) calls of extract
    batches,       \* the batches extract has handed to bls_request
    tpc,           \* position of transform: "none" before its first run
    tidx,          \* transform: responses of lst_of_queries taken up so far
    final_dct_lst, \* self.final_dct_lst
    tlog,          \* records _log_message gave to logging.warning in this run
    texc,          \* the exception that left transform, "" if none
    runs,          \* number of transform runs that returned
    first_run,     \* history: final_dct_lst when the first run returned
    df,            \* the frame given to _drop_nulls_and_duplicates, as rows
    cleaned,       \* the frame _drop_nulls_and_duplicates returned, as rows
    meta,          \* the frame the caller of _convert_adjusted holds, as rows
    meta_in,       \* history: that frame as it was when the caller passed it
    tagged,        \* the frame _convert_adjusted returned, as rows
    procs,         \* two processes at their ledger steps: position, attributes, exception
    last_write,    \* history: the line last written to the quota file
    ctor,          \* a call of BlsApiCall(...): its arguments and how it ended
    main_run       \* a run of main(): the parsed arguments and how far it got

framevars == <<series, start_year, end_year, attempt, final_error>>
obsvars == <<responses, sent, log, sleeps>>
xvars == <<series_df, series_id_lst, batch_progress, lst_of_queries, pauses, batches>>
mvars == <<meta, meta_in, tagged, procs, last_write, ctor, main_run>>
tvars == <<tpc, tidx, final_dct_lst, tlog, texc, runs, first_run, df, cleaned>>
vars == <<file, today, ticks, obj, pc, series, start_year, end_year, attempt,
          final_error, responses, sent, log, sleeps, outcome, calls, steps, hist,
          epc, series_df, series_id_lst, batch_progress, lst_of_queries, pauses,
          batches, tpc, tidx, final_dct_lst, tlog, texc, runs, first_run, df, cleaned,
          meta, meta_in, tagged, procs, last_write, ctor, main_run>>

\* ------------------------------------------------------------------------
\* The quota ledger
\* ------------------------------------------------------------------------
\* The call count the quota file holds: the count of its last line.
PersistedCount(f) == IF f.exists THEN f.last[1] ELSE 0

\* The day the quota file holds: the day of its last line.
PersistedDay(f) == IF f.exists THEN f.last[2] ELSE 0

\* The file is a record of day d alone, as far as its first and last line
\* tell, and its count has reached the daily limit.
TodaysCountReached(f, d) ==
    /\ f.exists
    /\ f.first[2] = d
    /\ f.last[2] = d
    /\ f.last[1] >= 500

\* Mutant: with a single entry the last count and day are left as they were.
ReadQuery_NoFallback(o, f) ==
    IF f.exists
    THEN IF f.n > 1
         THEN [o EXCEPT !.first_query_count = f.first[1],
                        !.first_query_day = f.first[2],
                        !.last_query_count = f.last[1],
                        !.last_query_day = f.last[2]]
         ELSE [o EXCEPT !.first_query_count = f.first[1],
                        !.first_query_day = f.first[2]]
    ELSE o

\* _read_query: first and last line of the file; nothing when there is no file.
\* With a single line the loop of lines 139-140 assigns nothing, line 141
\* raises UnboundLocalError, and the handler takes the first line as the last.
ReadQuery(o, f) ==
    IF f.exists
    THEN LET first == f.first
             last == IF f.n > 1 THEN f.last ELSE first
         IN [o EXCEPT !.first_query_count = first[1],
                      !.first_query_day = first[2],
                      !.last_query_count = last[1],
                      !.last_query_day = last[2]]
    ELSE o

\* _create_query_file: the condition under which the file is removed.
IsStale(o, f, d) == f.exists /\ d - o.first_query_day > 0

\* _create_query_file at day d: the attributes and the file it leaves.
CreateQueryFile(o, f, d) ==
    LET o1 == ReadQuery(o, f)
        o2 == [o1 EXCEPT !.current_query_day = d, !.just_created = FALSE]
        f1 == IF IsStale(o2, f, d) THEN NoFile ELSE f
    IN IF ~f1.exists
       THEN [obj |-> [o2 EXCEPT !.first_query_day = d, !.count = 1, !.just_created = TRUE],
             file |-> WriteFile(<<1, d>>)]
       ELSE [obj |-> o2, file |-> f1]

\* Mutant: the limit compared with > instead of >=.
QuotaExceeded_OffByOne(o, f, d) ==
    f.exists /\ o.last_query_count > QUOTA_LIMIT /\ d - o.first_query_day = 0

\* _increment_query_count: the condition under which it raises.
QuotaExceeded(o, f, d) ==
    f.exists /\ o.last_query_count >= QUOTA_LIMIT /\ d - o.first_query_day = 0

\* Mutant: the entry is appended before the limit is tested.
IncrementQueryCount_AppendFirst(o, f, d) ==
    LET o1 == [ReadQuery(o, f) EXCEPT !.current_query_day = d]
        f1 == IF ~o1.just_created THEN AppendFile(f, <<o1.last_query_count + 1, d>>) ELSE f
    IN [obj |-> o1, file |-> f1, raised |-> QuotaExceeded(o1, f, d)]

\* _increment_query_count at day d: attributes, file, and whether it raised.
IncrementQueryCount(o, f, d) ==
    LET o1 == [ReadQuery(o, f) EXCEPT !.current_query_day = d]
    IN IF QuotaExceeded(o1, f, d)
       THEN [obj |-> o1, file |-> f, raised |-> TRUE]
       ELSE IF ~o1.just_created
            THEN [obj |-> o1,
                  file |-> AppendFile(f, <<o1.last_query_count + 1, d>>),
                  raised |-> FALSE]
            ELSE [obj |-> o1, file |-> f, raised |-> FALSE]

\* ------------------------------------------------------------------------
\* bls_request
\* ------------------------------------------------------------------------
Payload(s, sy, ey) ==
    [seriesid |-> s, startyear |-> sy, endyear |-> ey, registrationKey |-> API_KEY]

Request(s, sy, ey) == [url |-> URL_ENDPOINT, data |-> Payload(s, sy, ey)]

\* Mutant: both limits compared with >= instead of >.
Validate_OffByOne(s, sy, ey) ==
    IF Len(s) >= SERIES_LIMIT THEN Raised("ValueError", MSG_SERIES, 0)
    ELSE IF ey - sy >= YEAR_LIMIT THEN Raised("ValueError", MSG_YEARS, 0)
    ELSE NoOutcome

\* The checks of the arguments: the exception raised, or NoOutcome.
Validate(s, sy, ey) ==
    IF Len(s) > SERIES_LIMIT THEN Raised("ValueError", MSG_SERIES, 0)
    ELSE IF ey - sy > YEAR_LIMIT THEN Raised("ValueError", MSG_YEARS, 0)
    ELSE NoOutcome

\* The 'Request #n' records logged after requests.post returned.
RequestInfo(o) ==
    (IF o.national THEN <<LogEntry("info", "Request National", o.last_query_count)>> ELSE <<>>)
    \o (IF o.state THEN <<LogEntry("info", "Request State", o.last_query_count)>> ELSE <<>>)

\* Mutant: the pause grows by 2 seconds per attempt.
Backoff_Linear(a) == 2 * a

\* Line 260: time.sleep(2**attempt).
Backoff(a) == 2 ^ a

\* The handlers of one pass of the try block in attempt a.  Each gives the
\* records logged, the sleep, how the pass ends (next), the exception or the
\* value, and the assignment to final_error (UNSET: none).

\* Mutant: an exception of requests.post is retried like a retryable status.
OnException_Retried(o, r, a) ==
    [log |-> <<LogEntry("warning", "HTTP Error Attempt", 0)>>, sleep |-> <<Backoff(a)>>,
     next |-> "continue", exc |-> NoOutcome, final_error |-> 0]

\* requests.post raised: lines 267-269.
OnException(o, r, a) ==
    [log |-> <<LogEntry("critical", MSG_NOT_SUCCEEDED, 0)>>, sleep |-> <<>>,
     next |-> "raise", exc |-> Raised("Exception", MSG_NOT_SUCCEEDED, 0),
     final_error |-> UNSET]

\* A status of retry_codes: lines 243-244, 256-261.
OnRetryStatus(o, r, a) ==
    [log |-> RequestInfo(o) \o <<LogEntry("warning", "HTTP Error Attempt", r.status_code)>>,
     sleep |-> <<Backoff(a)>>,
     next |-> "continue", exc |-> NoOutcome, final_error |-> r.status_code]

\* Another status that is not 200: lines 243-244, 256-257, 262-265.
OnFatalStatus(o, r, a) ==
    [log |-> RequestInfo(o) \o <<LogEntry("critical", MSG_HTTP, r.status_code)>>,
     sleep |-> <<>>,
     next |-> "raise", exc |-> Raised("HTTPError", MSG_HTTP, r.status_code),
     final_error |-> r.status_code]

\* 200 with a status that is not REQUEST_SUCCEEDED: lines 249-251, 267-269.
OnRejected(o, r, a) ==
    [log |-> RequestInfo(o)
             \o <<LogEntry("warning", "Request Status Code Response", o.last_query_count),
                  LogEntry("critical", MSG_NOT_SUCCEEDED, 0)>>,
     sleep |-> <<>>,
     next |-> "raise", exc |-> Raised("Exception", MSG_NOT_SUCCEEDED, 0),
     final_error |-> UNSET]

\* Mutant: the status string is returned instead of the parsed JSON.
OnSuccess_ReturnsStatus(o, r, a) ==
    [log |-> RequestInfo(o)
             \o <<LogEntry("info", "Request Status Code Response", o.last_query_count)>>,
     sleep |-> <<>>,
     next |-> "return", exc |-> Returned([status |-> r.json.status, tag |-> ""]),
     final_error |-> UNSET]

\* 200 with status REQUEST_SUCCEEDED: lines 252-254.
OnSuccess(o, r, a) ==
    [log |-> RequestInfo(o)
             \o <<LogEntry("info", "Request Status Code Response", o.last_query_count)>>,
     sleep |-> <<>>,
     next |-> "return", exc |-> Returned(r.json), final_error |-> UNSET]

\* One pass of the try block and its handlers for response r in attempt a.
AttemptResult(o, r, a) ==
    IF r.raises THEN OnException(o, r, a)
    ELSE IF r.status_code # HTTP_OK
    THEN IF r.status_code \in retry_codes
         THEN OnRetryStatus(o, r, a)
         ELSE OnFatalStatus(o, r, a)
    ELSE IF r.json.status # "REQUEST_SUCCEEDED"
    THEN OnRejected(o, r, a)
    ELSE OnSuccess(o, r, a)

\* ------------------------------------------------------------------------
\* extract
\* ------------------------------------------------------------------------
Min(a, b) == IF a < b THEN a ELSE b

Max(a, b) == IF a > b THEN a ELSE b

\* lst[:n] of Python.
SliceTo(lst, n) ==
    IF n >= 0 THEN SubSeq(lst, 1, Min(n, Len(lst)))
    ELSE SubSeq(lst, 1, Max(Len(lst) + n, 0))

\* Mutant: only full batches are yielded; a shorter rest is dropped.
NextBatch_FullOnly(lst, done, n) ==
    IF done + n <= Len(lst) THEN SubSeq(lst, done + 1, done + n) ELSE <<>>

\* The tuple itertools.batched(lst, n) yields after `done` elements were yielded.
NextBatch(lst, done, n) == SubSeq(lst, done + 1, Min(done + n, Len(lst)))

\* ------------------------------------------------------------------------
\* transform
\* ------------------------------------------------------------------------
\* Python values of the response JSON and of the records: the type and, in
\* v, the pieces of the value.  A str is the sequence of its pieces, a list
\* the sequence of the repr() of its items.
PyNone == [t |-> "None", v |-> <<>>]

PyStr(pieces) == [t |-> "str", v |-> pieces]

PyList(items) == [t |-> "list", v |-> items]

PyIntOf(n) == [t |-> "int", v |-> <<n>>]

PyFloatOf(repr) == [t |-> "float", v |-> <<repr>>]

\* The pieces of ", ".join(items).
RECURSIVE JoinComma(_)
JoinComma(items) ==
    IF Len(items) <= 1 THEN items
    ELSE <<Head(items), ", ">> \o JoinComma(Tail(items))

\* str(x) of Python for a str or a list.
Str(x) == IF x.t = "list" THEN PyStr(<<"[">> \o JoinComma(x.v) \o <<"]">>) ELSE x

\* int(x) of Python for a str: the number, or ValueError.
PyInt(x) ==
    CASE x = PyStr(<<"2000">>) -> [ok |-> TRUE, val |-> PyIntOf(2000)]
      [] x = PyStr(<<"2001">>) -> [ok |-> TRUE, val |-> PyIntOf(2001)]
      [] x = PyStr(<<" 2001">>) -> [ok |-> TRUE, val |-> PyIntOf(2001)]
      [] OTHER -> [ok |-> FALSE, val |-> PyNone]

\* float(x) of Python for a str: the number, or ValueError.
PyFloat(x) ==
    CASE x = PyStr(<<"1.5">>) -> [ok |-> TRUE, val |-> PyFloatOf("1.5")]
      [] x = PyStr(<<"1.50">>) -> [ok |-> TRUE, val |-> PyFloatOf("1.5")]
      [] x = PyStr(<<"3">>) -> [ok |-> TRUE, val |-> PyFloatOf("3.0")]
      [] OTHER -> [ok |-> FALSE, val |-> PyNone]

\* Footnotes as the provider sends them, and as a str.
FOOTNOTES_EMPTY == PyList(<<"{}">>)
FOOTNOTES_P == PyList(<<"{'code': 'P', 'text': 'Preliminary'}">>)
FOOTNOTES_TWO == PyList(<<"{'code': 'P', 'text': 'Preliminary'}", "{}">>)
FOOTNOTES_STR == PyStr(<<"[", "{}", "]">>)

\* Line 410: str(fn) if fn != str([{}]) else None.
Footnotes(fn) == IF fn # Str(PyList(<<"{}">>)) THEN Str(fn) ELSE PyNone

\* Lines 404-411: the record of a data point, or the ValueError of int() or
\* float().
DataDict(series_id, data_point) ==
    LET y == PyInt(data_point.year)
        f == PyFloat(data_point.value)
    IN [ok |-> y.ok /\ f.ok,
        rec |-> [seriesID |-> series_id, year |-> y.val, period |-> data_point.period,
                 period_name |-> data_point.periodName, value |-> f.val,
                 footnotes |-> Footnotes(data_point.footnotes)]]

\* Lines 400-403: the data points of a response in the order the two loops
\* reach them, each with the seriesID of its series.
PointsOfSeries(series_id, data) ==
    [i \in DOMAIN data |-> [seriesID |-> series_id, data_point |-> data[i]]]

RECURSIVE PointsOfSeriesList(_)
PointsOfSeriesList(series_dct) ==
    IF series_dct = <<>> THEN <<>>
    ELSE IF Len(series_dct) = 1
         THEN PointsOfSeries(series_dct[1].seriesID, series_dct[1].data)
         ELSE LET h == Len(series_dct) \div 2
              IN PointsOfSeriesList(SubSeq(series_dct, 1, h))
                 \o PointsOfSeriesList(SubSeq(series_dct, h + 1, Len(series_dct)))

PointsOf(response) == PointsOfSeriesList(response.Results.series)

\* Lines 403-412 over the points of one response: the records appended
\* before the first point whose int() or float() raises, and whether one
\* did.
AppendRecords(points) ==
    LET d == [i \in DOMAIN points |-> DataDict(points[i].seriesID, points[i].data_point)]
        bad == {i \in DOMAIN points : ~d[i].ok}
        stop == IF bad = {} THEN Len(points) + 1
                ELSE CHOOSE i \in bad : \A k \in bad : i <= k
    IN [records |-> [i \in 1..(stop - 1) |-> d[i].rec], raised |-> bad # {}]

\* _log_message: the characters \w and \d of the two patterns.
WordChars == {"S", "M", "U", "0", "1", "2", "7", "9", "_"}
DigitChars == {"0", "1", "2", "7", "9"}

NO_DATA_HEAD == "No Data Available for Series "
NO_DATA_MID == " Year: "
NO_SERIES_HEAD == "Series does not exist for Series "

\* Mutant: the second pattern is matched with re.match, which accepts text
\* after the series id.
NoSeriesMatch_Prefix(message) ==
    IF /\ Len(message) >= 2
       /\ message[1] = NO_SERIES_HEAD
       /\ message[2] \in WordChars
    THEN LET k == CHOOSE n \in 2..Len(message) :
                     /\ \A i \in 2..n : message[i] \in WordChars
                     /\ (n < Len(message) => message[n + 1] \notin WordChars)
         IN [matched |-> TRUE, series_id |-> SubSeq(message, 2, k)]
    ELSE [matched |-> FALSE, series_id |-> <<>>]

\* Line 325: re.fullmatch(r'No Data Available for Series (\w+) Year: (\d\d\d\d)').
YearMatch(message) ==
    LET n == Len(message)
    IN IF /\ n >= 7
          /\ message[1] = NO_DATA_HEAD
          /\ message[n - 4] = NO_DATA_MID
          /\ \A i \in 2..(n - 5) : message[i] \in WordChars
          /\ \A i \in (n - 3)..n : message[i] \in DigitChars
       THEN [matched |-> TRUE, series_id |-> SubSeq(message, 2, n - 5),
             year |-> SubSeq(message, n - 3, n)]
       ELSE [matched |-> FALSE, series_id |-> <<>>, year |-> <<>>]

\* Line 326: re.fullmatch(r'Series does not exist for Series (\w+)').
NoSeriesMatch(message) ==
    IF /\ Len(message) >= 2
       /\ message[1] = NO_SERIES_HEAD
       /\ \A i \in 2..Len(message) : message[i] \in WordChars
    THEN [matched |-> TRUE, series_id |-> SubSeq(message, 2, Len(message))]
    ELSE [matched |-> FALSE, series_id |-> <<>>]

\* Lines 325-338: the record one message gives to logging.warning.
WarningOf(message) ==
    LET year_reg_match == YearMatch(message)
        no_series_reg_match == NoSeriesMatch(message)
    IN IF year_reg_match.matched
       THEN [level |-> "warning",
             entry |-> [message |-> "No Data Available",
                        series_id |-> year_reg_match.series_id,
                        year |-> year_reg_match.year]]
       ELSE IF no_series_reg_match.matched
            THEN [level |-> "warning",
                  entry |-> [message |-> "Series does not exist",
                             series_id |-> no_series_reg_match.series_id]]
            ELSE [level |-> "warning", entry |-> [text |-> message]]

\* _log_message(messages): one record per message, in order.
LogMessage(messages) == [i \in DOMAIN messages |-> WarningOf(messages[i])]

\* The row has a null in some column.
HasNull(row) == \E c \in DOMAIN row : row[c] = PyNone

\* _drop_nulls_and_duplicates: drop_duplicates on (seriesID, year, period)
\* keeping the first row of each key, then dropna over all columns.  Rows
\* are returned with the position they had in the frame given.
DropNullsAndDuplicates(rows) ==
    SelectSeq([i \in DOMAIN rows |-> [i |-> i, row |-> rows[i]]],
              LAMBDA e :
                 /\ \A j \in 1..(e.i - 1) :
                       ~(/\ rows[j].seriesID = e.row.seriesID
                         /\ rows[j].year = e.row.year
                         /\ rows[j].period = e.row.period)
                 /\ ~HasNull(e.row))

\* ------------------------------------------------------------------------
\* _convert_adjusted
\* ------------------------------------------------------------------------
\* A series name is a sequence of pieces of text.  The pieces are chosen so
\* that the two terms occur in a name only as whole pieces.
adjusted == ", seasonally adjusted"
not_adjusted == ", not seasonally adjusted"

PyBool(b) == [t |-> "bool", v |-> <<IF b THEN "True" ELSE "False">>]

\* str.lower() of one piece.
LowerPiece(piece) ==
    CASE piece = ", Seasonally Adjusted" -> adjusted
      [] piece = ", NOT Seasonally Adjusted" -> not_adjusted
      [] piece = "Unemployment Rate" -> "unemployment rate"
      [] OTHER -> piece

\* str.lower().
Lower(text) == [i \in DOMAIN text |-> LowerPiece(text[i])]

\* text.endswith(term), term one of the two terms.
EndsWith(text, term) == text # <<>> /\ text[Len(text)] = term

\* text.find(term): the pieces before the first occurrence of term, -1 if
\* there is none.
Find(text, term) ==
    IF \E i \in DOMAIN text : text[i] = term
    THEN (CHOOSE i \in DOMAIN text :
              text[i] = term /\ \A j \in 1..(i - 1) : text[j] # term) - 1
    ELSE -1

\* adjusted_column, lines 363-365.
adjusted_column(text) ==
    LET lowered == Lower(text)
    IN IF EndsWith(lowered, adjusted) THEN PyBool(TRUE)
       ELSE IF EndsWith(lowered, not_adjusted) THEN PyBool(FALSE)
       ELSE PyNone

\* remove_terms, lines 367-375.
remove_terms(text) ==
    LET text_lower == Lower(text)
        index1 == Find(text_lower, adjusted)
        index2 == Find(text_lower, not_adjusted)
    IN IF index1 # -1 THEN SubSeq(text, 1, index1)
       ELSE IF index2 # -1 THEN SubSeq(text, 1, index2)
       ELSE text

\* Lines 377-378: the two column assignments, on the rows of the frame.
ConvertAdjusted(frame) ==
    [i \in DOMAIN frame |->
        [series |-> remove_terms(frame[i].series),
         is_adjusted |-> adjusted_column(frame[i].series)]]

\* ------------------------------------------------------------------------
\* Initial states
\* ------------------------------------------------------------------------
\* The attributes __init__ leaves: exactly one of national / state.
NewObj(nat, sy, ey, nos) ==
    [first_query_count |-> UNSET, first_query_day |-> UNSET,
     last_query_count |-> UNSET, last_query_day |-> UNSET,
     current_query_day |-> UNSET, count |-> UNSET, just_created |-> FALSE,
     start_year |-> sy, end_year |-> ey, number_of_series |-> nos,
     national |-> nat, state |-> ~nat]

\* Counts of the quota records earlier runs of one day have left.
InitCounts == {2, QUOTA_LIMIT - 2, QUOTA_LIMIT - 1, QUOTA_LIMIT}

InitFiles == {NoFile} \cup {FileOf(k, d) : k \in InitCounts, d \in Days}

\* History of the running bls_request, kept for the properties only:
\*   file_at_call   the quota file when bls_request was entered
\*   before         the quota file when the current attempt's ledger step began
\*   day_at_create  the day _create_query_file read in the current attempt
\*   reset          the current attempt's _create_query_file removed the file
\*   removed        some attempt's _create_query_file removed the file
\*   ledger_steps   ledger steps (create, then increment) completed without raising
\*   quota_found    the last _increment_query_count began on a record of today
\*                  (first and last line) whose count had reached QUOTA_LIMIT
\*   served         the requests answered 200 / REQUEST_SUCCEEDED since the
\*                  instance was built, each with the body of the answer
\*   attempts       the calls of requests.post since the instance was built
\*   file_at_extract  the quota file when extract was entered
\*   quota_day      the day the last _increment_query_count read, when it raised
\*                  the quota error; 0 when it did not raise
InitHist ==
    [file_at_call |-> NoFile, before |-> NoFile, day_at_create |-> 0, reset |-> FALSE,
     removed |-> FALSE, ledger_steps |-> 0, quota_found |-> FALSE, served |-> <<>>,
     attempts |-> 0, file_at_extract |-> NoFile, quota_day |-> 0]

\* The processes that share the quota file.
Procs == {1, 2}

\* A process that is not at a ledger step.
NoProc == [pc |-> "none", obj |-> NewObj(FALSE, 2000, 2005, 1), exc |-> ""]

\* No frame has been given to _convert_adjusted; one process only.
InitConverted ==
    /\ meta = <<>>
    /\ meta_in = <<>>
    /\ tagged = <<>>

\* One process, and no constructor call under observation.
InitSingle ==
    /\ procs = [p \in Procs |-> NoProc]
    /\ last_write = <<0, 0>>

NoCtor == [args |-> <<>>, ended |-> "none", msg |-> "", obj |-> NewObj(FALSE, 0, 0, 0)]

\* A run of main: besides the arguments and how the checks of the arguments
\* ended, the statement main is at, the stages it has called, the errors it
\* has logged for them, the stage that raised and the exception main raised
\* again.
NoMain ==
    [args |-> <<>>, ended |-> "none", message |-> <<>>, read_file |-> FALSE,
     at |-> "start", stages |-> <<>>, errors |-> <<>>, failed |-> "", reraised |-> ""]

\* No constructor call and no run of main under observation.
InitNoCaller ==
    /\ ctor = NoCtor
    /\ main_run = NoMain

InitMore ==
    /\ InitConverted
    /\ InitSingle
    /\ InitNoCaller

\* Nothing is running and nothing has run.
InitIdle ==
    /\ ticks = 0
    /\ pc = "idle"
    /\ series = <<>>
    /\ start_year = 0
    /\ end_year = 0
    /\ attempt = 0
    /\ final_error = UNSET
    /\ responses = <<>>
    /\ sent = <<>>
    /\ log = <<>>
    /\ sleeps = <<>>
    /\ outcome = NoOutcome
    /\ calls = 0
    /\ steps = 0
    /\ epc = "none"
    /\ series_id_lst = <<>>
    /\ batch_progress = 0
    /\ pauses = 0
    /\ batches = <<>>
    /\ tpc = "none"
    /\ tidx = 0
    /\ final_dct_lst = <<>>
    /\ tlog = <<>>
    /\ texc = ""
    /\ runs = 0
    /\ first_run = <<>>
    /\ cleaned = <<>>

InitBase == InitIdle /\ hist = InitHist

InitRest == InitBase /\ InitMore

InitCommon == InitRest /\ lst_of_queries = <<>>

\* bls_request called on an instance built from a state series list of one
\* row, as in the unit tests' setUp.
Init ==
    /\ file \in InitFiles
    /\ today \in Days
    /\ series_df = IdList(1)
    /\ obj = NewObj(FALSE, 2000, 2005, 1)
    /\ InitCommon
    /\ df = <<>>

\* The unit test of the quota: no file, one day, ledger steps, then bls_request.
InitLedger ==
    /\ file = NoFile
    /\ today \in Days
    /\ series_df = IdList(1)
    /\ obj \in {NewObj(n, 2000, 2005, 1) : n \in BOOLEAN}
    /\ InitCommon
    /\ df = <<>>

\* Data points of a response: well-formed ones, the value "-", the empty
\* footnotes list, the footnotes as the str "[{}]", and a year and a value
\* that are no numbers.
DataPoint(year, period, value, footnotes) ==
    [year |-> PyStr(<<year>>), period |-> PyStr(<<period>>),
     periodName |-> PyStr(<<"January">>), value |-> PyStr(<<value>>),
     footnotes |-> footnotes]

DP_OK == DataPoint("2000", "M01", "1.5", FOOTNOTES_P)
DP_OK2 == DataPoint(" 2001", "M02", "1.50", FOOTNOTES_TWO)
DP_DASH == DataPoint("2000", "M02", "-", FOOTNOTES_P)
DP_EMPTY_FOOTNOTES == DataPoint("2001", "M01", "3", FOOTNOTES_EMPTY)
DP_STR_FOOTNOTES == DataPoint("2001", "M03", "3", FOOTNOTES_STR)
DP_BAD_YEAR == DataPoint("20x1", "M01", "1.5", FOOTNOTES_P)
DP_BAD_VALUE == DataPoint("2000", "M03", "n/a", FOOTNOTES_P)

DataPoints ==
    {DP_OK, DP_OK2, DP_DASH, DP_EMPTY_FOOTNOTES, DP_STR_FOOTNOTES, DP_BAD_YEAR, DP_BAD_VALUE}

DataLists == UNION {[1..n -> DataPoints] : n \in 0..MaxPoints}

SeriesOf(id, data) == [seriesID |-> PyStr(<<id>>), data |-> data]

SeriesLists ==
    {<<SeriesOf("SMU01", d)>> : d \in DataLists}
    \cup {<<SeriesOf("SMU01", <<DP_OK>>), SeriesOf("SMU02", d)>> :
             d \in {x \in DataLists : Len(x) <= 1}}

\* Messages of a response, as the pieces the patterns of _log_message tell
\* apart: the fixed phrases and single characters.
MSG_NO_DATA == <<NO_DATA_HEAD, "S", "M", "U", "0", "1", NO_DATA_MID, "1", "9", "7", "2">>
MSG_NO_DATA_SHORT_YEAR == <<NO_DATA_HEAD, "S", "M", "U", "0", "1", NO_DATA_MID, "7", "2">>
MSG_NO_DATA_BAD_ID == <<NO_DATA_HEAD, "S", "-", "1", NO_DATA_MID, "1", "9", "7", "2">>
MSG_NO_SERIES == <<NO_SERIES_HEAD, "S", "M", "U", "0", "2">>
MSG_NO_SERIES_MORE == <<NO_SERIES_HEAD, "S", "M", "U", "0", "2", ".">>
MSG_OTHER == <<"Invalid Series ">>

MessageLists ==
    {<<>>, <<MSG_NO_DATA>>, <<MSG_NO_SERIES, MSG_OTHER>>, <<MSG_NO_DATA_SHORT_YEAR, MSG_NO_DATA>>,
     <<MSG_NO_DATA_BAD_ID>>, <<MSG_NO_SERIES_MORE, MSG_NO_SERIES>>}

\* The JSON of a 200 / REQUEST_SUCCEEDED response.
Body(messages, series_dct) ==
    [status |-> "REQUEST_SUCCEEDED", tag |-> "A", message |-> messages,
     Results |-> [series |-> series_dct]]

GOOD_RESPONSE == Body(<<>>, <<SeriesOf("SMU01", <<DP_OK>>)>>)

\* Response lists: any response among well-formed ones.
ResponseLists ==
    {<<>>} \cup
    {[i \in 1..n |-> IF i = k THEN Body(m, sl) ELSE GOOD_RESPONSE] :
        n \in 1..MaxResponses, k \in 1..MaxResponses, m \in MessageLists, sl \in SeriesLists}

\* transform on an instance whose extract has left the responses in
\* lst_of_queries.
InitTransform ==
    /\ file = NoFile
    /\ today = 1
    /\ series_df = IdList(1)
    /\ obj = NewObj(FALSE, 2000, 2005, 1)
    /\ InitRest
    /\ lst_of_queries \in ResponseLists
    /\ df = <<>>

\* Rows of a frame with the columns of the records of transform.
Row(id, year, period, value, footnotes) ==
    [seriesID |-> PyStr(<<id>>), year |-> PyIntOf(year), period |-> PyStr(<<period>>),
     period_name |-> PyStr(<<"January">>), value |-> value, footnotes |-> footnotes]

Rows ==
    {Row("SMU01", 2000, "M01", PyFloatOf("1.5"), Str(FOOTNOTES_P)),
     Row("SMU01", 2000, "M01", PyFloatOf("3.0"), Str(FOOTNOTES_P)),
     Row("SMU01", 2001, "M01", PyFloatOf("1.5"), PyNone),
     Row("SMU02", 2000, "M01", PyNone, Str(FOOTNOTES_P)),
     Row("SMU02", 2001, "M02", PyFloatOf("3.0"), Str(FOOTNOTES_TWO))}

\* _drop_nulls_and_duplicates on a frame of up to MaxRows rows.
InitClean ==
    /\ file = NoFile
    /\ today = 1
    /\ series_df = IdList(1)
    /\ obj = NewObj(FALSE, 2000, 2005, 1)
    /\ InitCommon
    /\ df \in UNION {[1..n -> Rows] : n \in 0..MaxRows}

\* Series names: up to MaxPieces pieces.
NamePieces ==
    {"Unemployment Rate", adjusted, ", Seasonally Adjusted", not_adjusted,
     ", NOT Seasonally Adjusted", " seasonally adjusted"}

Names == UNION {[1..n -> NamePieces] : n \in 0..MaxPieces}

\* Frames of series metadata with the column 'series': no row, one row, and
\* two rows of which the second is a seasonally adjusted series.
MetaFrames ==
    {<<>>}
    \cup {<<[series |-> n]>> : n \in Names}
    \cup {<<[series |-> n], [series |-> <<"Unemployment Rate", adjusted>>]>> : n \in Names}

\* A caller hands a frame of series metadata to _convert_adjusted.
InitConvert ==
    /\ file = NoFile
    /\ today = 1
    /\ series_df = IdList(1)
    /\ obj = NewObj(TRUE, 2000, 2005, 1)
    /\ InitBase
    /\ lst_of_queries = <<>>
    /\ df = <<>>
    /\ meta \in MetaFrames
    /\ meta_in = meta
    /\ tagged = <<>>
    /\ InitSingle
    /\ InitNoCaller

\* Identifier lists for extract followed by transform: up to two batches,
\* and one list that names its first identifier again in the second batch.
PipelineLists ==
    {IdList(n) : n \in {0, 1, 2, BATCH_SIZE, BATCH_SIZE + 1}}
    \cup {IdList(BATCH_SIZE) \o <<1>>}

\* extract and then transform, as in the main block (lines 497-499).
InitPipeline ==
    /\ file = NoFile
    /\ today \in Days
    /\ series_df \in PipelineLists
    /\ obj \in {NewObj(nat, 2000, 2005, Len(series_df)) : nat \in BOOLEAN}
    /\ InitCommon
    /\ df = <<>>

\* The end-to-end scenario: extract on a list of END_TO_END_IDS identifiers,
\* with no quota record, a record of today, and a record of another day.
END_TO_END_IDS == 2 * BATCH_SIZE + 20

InitEndToEnd ==
    /\ today = 2
    /\ file \in {NoFile} \cup {FileOf(2, d) : d \in Days}
    /\ series_df = IdList(END_TO_END_IDS)
    /\ obj \in {NewObj(nat, 2000, 2005, END_TO_END_IDS) : nat \in BOOLEAN}
    /\ InitCommon
    /\ df = <<>>

\* Two processes, each with its own instance, enter bls_request on the same
\* day with the same quota file: none, one of an earlier day, one of today.
InitRace ==
    /\ today = 2
    /\ file \in {NoFile} \cup {FileOf(k, d) : k \in InitCounts, d \in 1..2}
    /\ series_df = IdList(1)
    /\ obj = NewObj(FALSE, 2000, 2005, 1)
    /\ InitIdle
    /\ hist = [InitHist EXCEPT !.file_at_call = file]
    /\ lst_of_queries = <<>>
    /\ df = <<>>
    /\ InitConverted
    /\ procs = [p \in Procs |-> [NoProc EXCEPT !.pc = "c_exists"]]
    /\ last_write = file.last
    /\ InitNoCaller

\* bls_request called again and again, by one instance or by a new one after
\* the program was started again.  The quota file is none, one with a single
\* entry, or one earlier ledger steps of one day have left.
InitReruns ==
    /\ file \in InitFiles \cup {WriteFile(<<1, d>>) : d \in Days}
    /\ today \in Days
    /\ series_df = IdList(1)
    /\ obj = NewObj(FALSE, 2000, 2005, 1)
    /\ InitCommon
    /\ df = <<>>

\* ------------------------------------------------------------------------
\* __init__
\* ------------------------------------------------------------------------
MSG_ONE_LIST == "Argument must only be one series list"
MSG_DATAFRAME == "BlsApiCall inputs must be Pandas DataFrame"
MSG_START_BEFORE_END == "Start year must be before end year."
MSG_VALID_YEAR == "Please enter a valid year"
MSG_VALID_YEAR_DOT == "Please enter a valid year."

\* A series list argument: None, a DataFrame with a seriesID column, or a
\* plain list.
NoSeries == [t |-> "None", ids |-> <<>>]
DataFrameOf(ids) == [t |-> "DataFrame", ids |-> ids]
ListOf(ids) == [t |-> "list", ids |-> ids]

\* The instance with the attributes lines 91-119 assign; national and state
\* are assigned only by the if statements of lines 112 and 116.
Instance(sy, ey, national_series, state_series, number_of_series) ==
    LET given == IF state_series = NoSeries THEN national_series ELSE state_series
        o == NewObj(state_series = NoSeries, sy, ey,
                    IF number_of_series.given THEN number_of_series.n ELSE Len(given.ids))
    IN [o EXCEPT !.national = (state_series = NoSeries),
                 !.state = (national_series = NoSeries)]

\* Mutant: the test for two series lists (lines 96-97) is missing.
BlsApiCallInit_BothAllowed(sy, ey, this_year, national_series, state_series, number_of_series) ==
    LET raise(kind, msg) == [ended |-> kind, msg |-> msg, obj |-> NoCtor.obj]
    IN IF state_series = NoSeries /\ national_series = NoSeries
       THEN raise("Exception", MSG_ONE_LIST)
       ELSE IF state_series # NoSeries /\ state_series.t # "DataFrame"
       THEN raise("TypeError", MSG_DATAFRAME)
       ELSE IF national_series # NoSeries /\ national_series.t # "DataFrame"
       THEN raise("TypeError", MSG_DATAFRAME)
       ELSE IF sy > ey THEN raise("Exception", MSG_START_BEFORE_END)
       ELSE IF sy <= 0 \/ ey <= 0 THEN raise("Exception", MSG_VALID_YEAR)
       ELSE IF ey > this_year THEN raise("Exception", MSG_VALID_YEAR_DOT)
       ELSE [ended |-> "built", msg |-> "",
             obj |-> Instance(sy, ey, national_series, state_series, number_of_series)]

\* __init__, lines 89-119, in the year this_year: the exception it raises
\* or the instance it leaves.
BlsApiCallInit(sy, ey, this_year, national_series, state_series, number_of_series) ==
    LET raise(kind, msg) == [ended |-> kind, msg |-> msg, obj |-> NoCtor.obj]
    IN IF state_series = NoSeries /\ national_series = NoSeries
       THEN raise("Exception", MSG_ONE_LIST)
       ELSE IF state_series # NoSeries /\ national_series # NoSeries
       THEN raise("Exception", MSG_ONE_LIST)
       ELSE IF state_series # NoSeries /\ state_series.t # "DataFrame"
       THEN raise("TypeError", MSG_DATAFRAME)
       ELSE IF national_series # NoSeries /\ national_series.t # "DataFrame"
       THEN raise("TypeError", MSG_DATAFRAME)
       ELSE IF sy > ey THEN raise("Exception", MSG_START_BEFORE_END)
       ELSE IF sy <= 0 \/ ey <= 0 THEN raise("Exception", MSG_VALID_YEAR)
       ELSE IF ey > this_year THEN raise("Exception", MSG_VALID_YEAR_DOT)
       ELSE [ended |-> "built", msg |-> "",
             obj |-> Instance(sy, ey, national_series, state_series, number_of_series)]

\* Arguments of BlsApiCall(...): years before, in and after this_year, no
\* year range and a reversed one, a year that is not positive; each series
\* list absent, a frame, or a list; number_of_series default or given.
YearArgs ==
    {<<2000, 2005>>, <<2005, 2005>>, <<2005, 2000>>, <<0, 2005>>, <<-5, 0>>, <<2000, 2027>>}

SeriesArgs == {NoSeries, DataFrameOf(IdList(1)), DataFrameOf(IdList(2)), ListOf(IdList(1))}

CountArgs == {[given |-> FALSE, n |-> 0], [given |-> TRUE, n |-> 1]}

CtorArgs ==
    {[start_year |-> y[1], end_year |-> y[2], this_year |-> ty, national_series |-> n,
      state_series |-> st, number_of_series |-> c] :
        y \in YearArgs, ty \in {2025, 2026}, n \in SeriesArgs, st \in SeriesArgs, c \in CountArgs}

\* A caller is about to construct a BlsApiCall.
InitConstruct ==
    /\ today = 1
    /\ file = NoFile
    /\ series_df = <<>>
    /\ obj = NoCtor.obj
    /\ InitBase
    /\ lst_of_queries = <<>>
    /\ df = <<>>
    /\ InitConverted
    /\ InitSingle
    /\ ctor \in {[NoCtor EXCEPT !.args = a] : a \in CtorArgs}
    /\ main_run = NoMain

\* ------------------------------------------------------------------------
\* main.py: validate_years and main
\* ------------------------------------------------------------------------
\* A year as main gets it: an int, or a str (the unit test passes one).
YearInt(n) == [t |-> "int", n |-> n, text |-> ""]
YearStr(text) == [t |-> "str", n |-> 0, text |-> text]

\* int(year): the number, or ValueError for a str that is no number.
IntOfYear(year) ==
    IF year.t = "int" THEN [ok |-> TRUE, n |-> year.n]
    ELSE IF year.text = "2000" THEN [ok |-> TRUE, n |-> 2000]
    ELSE [ok |-> FALSE, n |-> 0]

\* bool(year): 0 and '' are false.
Truthy(year) == IF year.t = "int" THEN year.n # 0 ELSE year.text # ""

ERR_INTEGERS == <<"Error: Years must be integers.">>
ERR_POSITIVE == <<"Error: Years must be positive integers.">>
ERR_FUTURE(this_year) == <<"Error: End year cannot be in the future (current year: ", this_year, ").">>
ERR_ORDER == <<"Error: Start year must be before end year.">>
ERR_RANGE == <<"Error: Year range cannot exceed 20 years due to API limitations.">>
ERR_SPECIFY == <<"Please Specify --path, --type, --start-year, and --end-year or nothing for interactive input.">>
ERR_PATH == <<"Path not found.">>

\* validate_years (main.py lines 146-163) in the year this_year.
validate_years(start, end, this_year) ==
    LET sy == IntOfYear(start)
        ey == IntOfYear(end)
    IN IF ~sy.ok \/ ~ey.ok THEN [valid |-> FALSE, message |-> ERR_INTEGERS]
       ELSE IF sy.n <= 0 \/ ey.n <= 0 THEN [valid |-> FALSE, message |-> ERR_POSITIVE]
       ELSE IF ey.n > this_year THEN [valid |-> FALSE, message |-> ERR_FUTURE(this_year)]
       ELSE IF sy.n > ey.n THEN [valid |-> FALSE, message |-> ERR_ORDER]
       ELSE IF ey.n - sy.n > 20 THEN [valid |-> FALSE, message |-> ERR_RANGE]
       ELSE [valid |-> TRUE, message |-> <<>>]

\* main (main.py lines 215-247) with --path and --series-type given: the
\* test that all four values are there, the two validations, and whether
\* main goes on to read_file.
Main(a) ==
    LET all_given == a.path_given /\ Truthy(a.start_year) /\ Truthy(a.end_year)
        some_given == a.path_given \/ Truthy(a.start_year) \/ Truthy(a.end_year)
        years == validate_years(a.start_year, a.end_year, a.this_year)
        stop(kind, message) ==
            [NoMain EXCEPT !.args = a, !.ended = kind, !.message = message, !.at = "raised"]
    IN IF some_given /\ ~all_given THEN stop("ValueError", ERR_SPECIFY)
       ELSE IF ~a.path_exists THEN stop("FileNotFoundError", ERR_PATH)
       ELSE IF ~years.valid THEN stop("ValueError", years.message)
       ELSE [NoMain EXCEPT !.args = a, !.ended = "goes on", !.read_file = TRUE,
                           !.at = "read_file"]

\* The exceptions a stage of the pipeline ends with, as main sees them: main
\* catches BaseException.
StageErrors == {"Exception", "HTTPError", "KeyboardInterrupt"}

\* The statement after a stage that returned.
AfterStage(stage) ==
    CASE stage = "instantiate" -> "extract"
      [] stage = "extract" -> "transform"
      [] stage = "transform" -> "load"
      [] OTHER -> "returned"

\* A stage of main has been called.
StageCalled(run, stage) ==
    IF stage = "instantiate" THEN run ELSE [run EXCEPT !.stages = Append(run.stages, stage)]

\* Mutant: the handler logs the error and main goes on with the next stage.
StageRaised_Swallowed(run, stage, e) ==
    [StageCalled(run, stage) EXCEPT !.errors = Append(run.errors, [stage |-> stage, exc |-> e]),
                                    !.failed = stage,
                                    !.at = AfterStage(stage)]

\* 'except BaseException as e: logger.error(...); raise' of a stage
\* (lines 271-273, 279-281, 287-289, 295-297).
StageRaised(run, stage, e) ==
    [StageCalled(run, stage) EXCEPT !.errors = Append(run.errors, [stage |-> stage, exc |-> e]),
                                    !.failed = stage,
                                    !.reraised = e,
                                    !.at = "raised"]

\* The stage returned: main goes on with the statement after its try block.
StageReturned(run, stage) == [StageCalled(run, stage) EXCEPT !.at = AfterStage(stage)]

\* Years given on the command line (argparse, type=int) and by the unit
\* test; the year is 2025.
MainYears ==
    {YearInt(n) : n \in {-2000, 0, 200, 2000, 2004, 2005, 2010, 2025, 2026, 2035}}
    \cup {YearStr("two thousand twenty"), YearStr("2000")}

MainArgs ==
    {[path_given |-> TRUE, path_exists |-> e, start_year |-> sy, end_year |-> ey,
      this_year |-> 2025] : e \in BOOLEAN, sy \in MainYears, ey \in MainYears}

\* main is about to run on parsed arguments.
InitMain ==
    /\ today = 1
    /\ file = NoFile
    /\ series_df = <<>>
    /\ obj = NoCtor.obj
    /\ InitBase
    /\ lst_of_queries = <<>>
    /\ df = <<>>
    /\ InitConverted
    /\ InitSingle
    /\ ctor = NoCtor
    /\ main_run \in {[NoMain EXCEPT !.args = a] : a \in MainArgs}

\* number_of_series values passed to __init__ besides the default.
ExplicitCounts == {-1, 0, SERIES_LIMIT + 10}

\* extract on an instance built from a series list of n identifiers.
InitExtract ==
    /\ today = 1
    /\ file \in {NoFile, FileOf(QUOTA_LIMIT - 2, 1)}
    /\ \E n \in 0..MaxIds :
          /\ series_df = IdList(n)
          /\ obj \in {NewObj(nat, y[1], y[2], nos) :
                         nat \in BOOLEAN,
                         y \in {<<2000, 2005>>, <<2000, 2000 + YEAR_LIMIT + 1>>},
                         nos \in {n} \cup (IF n = MaxIds THEN ExplicitCounts ELSE {})}
    /\ InitCommon
    /\ df = <<>>

\* ------------------------------------------------------------------------
\* Actions
\* ------------------------------------------------------------------------
\* Mutant: extract catches the exception and goes on with the next batch.
EpcAfter_Swallow(newpc) == IF epc = "call" /\ newpc = "raised" THEN "loop" ELSE epc

\* An exception leaving bls_request while extract runs leaves extract too.
EpcAfter(newpc) == IF epc = "call" /\ newpc = "raised" THEN "raised" ELSE epc

\* The day of month changes.  bls_request reads the clock in
\* _create_query_file and in _increment_query_count only, so every change is
\* a change right before one of the two: a change between two calls, or
\* while requests.post runs, is the change at "create" of the next attempt.
Tick ==
    /\ ticks < MaxTicks
    /\ pc \in {"create", "increment"}
    /\ \E d \in Days \ {today} : today' = d
    /\ ticks' = ticks + 1
    /\ UNCHANGED <<mvars, tvars, file, obj, pc, framevars, obsvars, outcome, calls, steps, hist, epc, xvars>>

\* The driver calls _create_query_file directly (test_bls_request_limit).
TestCreate ==
    /\ pc = "idle"
    /\ calls = 0
    /\ LET r == CreateQueryFile(obj, file, today)
       IN /\ obj' = r.obj
          /\ file' = r.file
    /\ pc' = "test_increment"
    /\ UNCHANGED <<mvars, tvars, today, ticks, framevars, obsvars, outcome, calls, steps, hist, epc, xvars>>

\* The driver calls _increment_query_count directly (test_bls_request_limit).
TestIncrement ==
    /\ pc = "test_increment"
    /\ LET r == IncrementQueryCount(obj, file, today)
       IN /\ obj' = r.obj
          /\ file' = r.file
          /\ IF r.raised
             THEN /\ pc' = "raised"
                  /\ outcome' = Raised("Exception", MSG_QUOTA, 0)
                  /\ log' = Append(log, LogEntry("critical", MSG_QUOTA, 0))
                  /\ steps' = steps
             ELSE /\ pc' = "idle"
                  /\ outcome' = outcome
                  /\ log' = log
                  /\ steps' = steps + 1
    /\ UNCHANGED <<mvars, tvars, today, ticks, framevars, responses, sent, sleeps, calls, hist, epc, xvars>>

\* Entry of bls_request(s, sy, ey): lines 214-227.
EnterBlsRequest(s, sy, ey) ==
    /\ series' = s
    /\ start_year' = sy
    /\ end_year' = ey
    /\ final_error' = UNSET
    /\ responses' = <<>>
    /\ sent' = <<>>
    /\ log' = <<>>
    /\ sleeps' = <<>>
    /\ hist' = [InitHist EXCEPT !.file_at_call = file, !.served = hist.served,
                                !.attempts = hist.attempts,
                                !.file_at_extract = hist.file_at_extract,
                                !.quota_day = hist.quota_day]
    /\ IF Validate(s, sy, ey) # NoOutcome
       THEN /\ pc' = "raised"
            /\ outcome' = Validate(s, sy, ey)
            /\ attempt' = 0
       ELSE /\ pc' = "create"
            /\ outcome' = NoOutcome
            /\ attempt' = 1
    /\ UNCHANGED <<file, today, ticks, obj, steps>>

\* Arguments the driver passes: <<number of series ids, start_year, end_year>>.
Args ==
    {<<1, 2000, 2005>>, <<SERIES_LIMIT, 2000, 2000 + YEAR_LIMIT>>,
     <<SERIES_LIMIT + 1, 2000, 2005>>, <<SERIES_LIMIT + 1, 2000, 2000 + YEAR_LIMIT>>,
     <<1, 2000, 2000 + YEAR_LIMIT + 1>>, <<SERIES_LIMIT, 2000, 2000 + YEAR_LIMIT + 1>>,
     <<SERIES_LIMIT + 1, 2000, 2000 + YEAR_LIMIT + 1>>}

\* The driver calls bls_request directly, as the unit tests do.
CallBlsRequest ==
    /\ pc \in {"idle", "returned", "raised"}
    /\ epc = "none"
    /\ calls < MaxCalls
    /\ calls' = calls + 1
    /\ \E a \in Args : EnterBlsRequest(IdList(a[1]), a[2], a[3])
    /\ UNCHANGED <<mvars, tvars, epc, xvars>>

\* The driver of test_bls_request_limit: one bls_request after the ledger steps.
CallBlsRequestOnce ==
    /\ calls = 0
    /\ steps >= QUOTA_LIMIT - RETRIES
    /\ CallBlsRequest

\* The program is started again after a call ended: a new instance.
NewInstance ==
    /\ pc \in {"returned", "raised"}
    /\ epc = "none"
    /\ calls < MaxReruns
    /\ obj' = NewObj(FALSE, 2000, 2005, 1)
    /\ pc' = "idle"
    /\ UNCHANGED <<mvars, tvars, file, today, ticks, framevars, obsvars, outcome, calls, steps, hist, epc, xvars>>

\* bls_request called with arguments that pass its checks, up to MaxReruns times.
CallBlsRequestAgain ==
    /\ pc \in {"idle", "returned", "raised"}
    /\ epc = "none"
    /\ calls < MaxReruns
    /\ calls' = calls + 1
    /\ EnterBlsRequest(IdList(1), 2000, 2005)
    /\ UNCHANGED <<mvars, tvars, epc, xvars>>

\* Line 231: self._create_query_file().
BlsCreate ==
    /\ pc = "create"
    /\ LET r == CreateQueryFile(obj, file, today)
       IN /\ obj' = r.obj
          /\ file' = r.file
          /\ hist' = [hist EXCEPT !.before = file,
                                  !.day_at_create = today,
                                  !.reset = file.exists /\ r.file # file,
                                  !.removed = hist.removed \/ (file.exists /\ r.file # file)]
    /\ pc' = "increment"
    /\ UNCHANGED <<mvars, tvars, today, ticks, framevars, obsvars, outcome, calls, steps, epc, xvars>>

\* Mutant: the ledger calls sit inside the try block, so the quota error is
\* caught by "except Exception" and raised again as the response error.
BlsIncrement_InsideTry ==
    /\ pc = "increment"
    /\ LET r == IncrementQueryCount(obj, file, today)
       IN /\ obj' = r.obj
          /\ file' = r.file
          /\ IF r.raised
             THEN /\ pc' = "raised"
                  /\ outcome' = Raised("Exception", MSG_NOT_SUCCEEDED, 0)
                  /\ log' = log \o <<LogEntry("critical", MSG_QUOTA, 0),
                                      LogEntry("critical", MSG_NOT_SUCCEEDED, 0)>>
                  /\ hist' = [hist EXCEPT !.quota_found = TodaysCountReached(file, today),
                                          !.quota_day = today]
             ELSE /\ pc' = "post"
                  /\ outcome' = outcome
                  /\ log' = log
                  /\ hist' = [hist EXCEPT !.ledger_steps = hist.ledger_steps + 1,
                                          !.quota_found = TodaysCountReached(file, today),
                                          !.quota_day = 0]
    /\ epc' = EpcAfter(pc')
    /\ UNCHANGED <<mvars, tvars, today, ticks, framevars, responses, sent, sleeps, calls, steps, xvars>>

\* Line 232: self._increment_query_count().
BlsIncrement ==
    /\ pc = "increment"
    /\ LET r == IncrementQueryCount(obj, file, today)
       IN /\ obj' = r.obj
          /\ file' = r.file
          /\ IF r.raised
             THEN /\ pc' = "raised"
                  /\ outcome' = Raised("Exception", MSG_QUOTA, 0)
                  /\ log' = Append(log, LogEntry("critical", MSG_QUOTA, 0))
                  /\ hist' = [hist EXCEPT !.quota_found = TodaysCountReached(file, today),
                                          !.quota_day = today]
             ELSE /\ pc' = "post"
                  /\ outcome' = outcome
                  /\ log' = log
                  /\ hist' = [hist EXCEPT !.ledger_steps = hist.ledger_steps + 1,
                                          !.quota_found = TodaysCountReached(file, today),
                                          !.quota_day = 0]
    /\ epc' = EpcAfter(pc')
    /\ UNCHANGED <<mvars, tvars, today, ticks, framevars, responses, sent, sleeps, calls, steps, xvars>>

\* Mutant: the loop makes one more pass before it gives up.
Post_OneMore(r) ==
    /\ pc = "post"
    /\    LET a == AttemptResult(obj, r, attempt)
              exhausted == a.next = "continue" /\ attempt = RETRIES + 1
          IN /\ responses' = Append(responses, r)
             /\ sent' = Append(sent, Request(series, start_year, end_year))
             /\ sleeps' = sleeps \o a.sleep
             /\ final_error' = IF a.final_error # UNSET THEN a.final_error ELSE final_error
             /\ IF exhausted
                THEN /\ log' = log \o a.log \o <<LogEntry("critical", MSG_API, a.final_error)>>
                     /\ pc' = "raised"
                     /\ outcome' = Raised("Exception", MSG_API, a.final_error)
                     /\ attempt' = attempt
                ELSE /\ log' = log \o a.log
                     /\ pc' = CASE a.next = "continue" -> "create"
                                [] a.next = "raise" -> "raised"
                                [] OTHER -> "returned"
                     /\ outcome' = a.exc
                     /\ attempt' = IF a.next = "continue" THEN attempt + 1 ELSE attempt
             /\ hist' = IF a.next = "return"
                        THEN [hist EXCEPT !.attempts = hist.attempts + 1,
                                          !.served =
                                 Append(hist.served, [seriesid |-> series, json |-> r.json])]
                        ELSE [hist EXCEPT !.attempts = hist.attempts + 1]
    /\ epc' = EpcAfter(pc')
    /\ UNCHANGED <<mvars, tvars, file, today, ticks, obj, series, start_year, end_year, calls, steps, xvars>>

\* Lines 234-272: requests.post answers with r; the try block, its handlers,
\* and, after the last attempt, the statements after the loop.
Post(r) ==
    /\ pc = "post"
    /\    LET a == AttemptResult(obj, r, attempt)
              exhausted == a.next = "continue" /\ attempt = RETRIES
          IN /\ responses' = Append(responses, r)
             /\ sent' = Append(sent, Request(series, start_year, end_year))
             /\ sleeps' = sleeps \o a.sleep
             /\ final_error' = IF a.final_error # UNSET THEN a.final_error ELSE final_error
             /\ IF exhausted
                THEN /\ log' = log \o a.log \o <<LogEntry("critical", MSG_API, a.final_error)>>
                     /\ pc' = "raised"
                     /\ outcome' = Raised("Exception", MSG_API, a.final_error)
                     /\ attempt' = attempt
                ELSE /\ log' = log \o a.log
                     /\ pc' = CASE a.next = "continue" -> "create"
                                [] a.next = "raise" -> "raised"
                                [] OTHER -> "returned"
                     /\ outcome' = a.exc
                     /\ attempt' = IF a.next = "continue" THEN attempt + 1 ELSE attempt
             /\ hist' = IF a.next = "return"
                        THEN [hist EXCEPT !.attempts = hist.attempts + 1,
                                          !.served =
                                 Append(hist.served, [seriesid |-> series, json |-> r.json])]
                        ELSE [hist EXCEPT !.attempts = hist.attempts + 1]
    /\ epc' = EpcAfter(pc')
    /\ UNCHANGED <<mvars, tvars, file, today, ticks, obj, series, start_year, end_year, calls, steps, xvars>>

\* requests.post called from bls_request, with whatever the network does.
BlsPost == \E r \in Responses : Post(r)

\* What a provider that has data for every series answers to a request: the
\* body with one series per requested id, or a retryable failure.
ProviderResponses(s) ==
    {[raises |-> FALSE, status_code |-> HTTP_OK,
      json |-> Body(<<>>, [i \in DOMAIN s |-> SeriesOf(s[i], <<DP_OK>>)])],
     [raises |-> FALSE, status_code |-> 500, json |-> NoJson]}

\* requests.post called from bls_request, answered by that provider.
BlsPostProvider == \E r \in ProviderResponses(series) : Post(r)

\* extract, lines 286-297: the identifier list and the empty result list.
ExtractStart ==
    /\ pc = "idle"
    /\ epc = "none"
    /\ epc' = "loop"
    /\ lst_of_queries' = <<>>
    /\ series_id_lst' = SliceTo(series_df, obj.number_of_series)
    /\ batch_progress' = 0
    /\ pauses' = 0
    /\ batches' = <<>>
    /\ hist' = [hist EXCEPT !.file_at_extract = file]
    /\ UNCHANGED <<mvars, tvars, file, today, ticks, obj, pc, framevars, obsvars, outcome, calls, steps,
                   series_df>>

\* extract, lines 298-307: the next batch of the iterator goes to bls_request.
ExtractBatch ==
    /\ epc = "loop"
    /\ batch_progress < Len(series_id_lst)
    /\ LET batch == NextBatch(series_id_lst, batch_progress, BATCH_SIZE)
       IN /\ batch_progress' = batch_progress + Len(batch)
          /\ batches' = Append(batches, batch)
          /\ EnterBlsRequest(batch, obj.start_year, obj.end_year)
    /\ epc' = IF pc' = "raised" THEN "raised" ELSE "call"
    /\ UNCHANGED <<mvars, tvars, calls, series_df, series_id_lst, lst_of_queries, pauses>>

\* Mutant: the pause is taken between two batches only, not after the last.
ExtractAppend_PauseBetween ==
    /\ epc = "call"
    /\ pc = "returned"
    /\ lst_of_queries' = Append(lst_of_queries, outcome.value)
    /\ pauses' = IF batch_progress < Len(series_id_lst) THEN pauses + 1 ELSE pauses
    /\ epc' = "loop"
    /\ pc' = "idle"
    /\ UNCHANGED <<mvars, tvars, file, today, ticks, obj, framevars, obsvars, outcome, calls, steps, hist,
                   series_df, series_id_lst, batch_progress, batches>>

\* Mutant: the result is put in front of the earlier results.
ExtractAppend_Prepend ==
    /\ epc = "call"
    /\ pc = "returned"
    /\ lst_of_queries' = <<outcome.value>> \o lst_of_queries
    /\ pauses' = pauses + 1
    /\ epc' = "loop"
    /\ pc' = "idle"
    /\ UNCHANGED <<mvars, tvars, file, today, ticks, obj, framevars, obsvars, outcome, calls, steps, hist,
                   series_df, series_id_lst, batch_progress, batches>>

\* extract, lines 308-309: bls_request returned; keep the result and pause.
ExtractAppend ==
    /\ epc = "call"
    /\ pc = "returned"
    /\ lst_of_queries' = Append(lst_of_queries, outcome.value)
    /\ pauses' = pauses + 1
    /\ epc' = "loop"
    /\ pc' = "idle"
    /\ UNCHANGED <<mvars, tvars, file, today, ticks, obj, framevars, obsvars, outcome, calls, steps, hist,
                   series_df, series_id_lst, batch_progress, batches>>

\* extract, line 311: the iterator is exhausted; return self.lst_of_queries.
ExtractReturn ==
    /\ epc = "loop"
    /\ batch_progress >= Len(series_id_lst)
    /\ epc' = "returned"
    /\ UNCHANGED <<mvars, tvars, file, today, ticks, obj, pc, framevars, obsvars, outcome, calls, steps, hist,
                   xvars>>

\* Mutant: transform does not empty self.final_dct_lst before it runs.
TransformStart_NoReset ==
    /\ tpc \in {"none", "returned"}
    /\ runs < MaxRuns
    /\ epc \in {"none", "returned"}
    /\ pc = "idle"
    /\ final_dct_lst' = final_dct_lst
    /\ tidx' = 0
    /\ tlog' = <<>>
    /\ texc' = ""
    /\ tpc' = "run"
    /\ UNCHANGED <<mvars, file, today, ticks, obj, pc, framevars, obsvars, outcome, calls, steps, hist,
                   epc, xvars, runs, first_run, df, cleaned>>

\* transform, line 391: self.final_dct_lst = [].
TransformStart ==
    /\ tpc \in {"none", "returned"}
    /\ runs < MaxRuns
    /\ epc \in {"none", "returned"}
    /\ pc = "idle"
    /\ final_dct_lst' = <<>>
    /\ tidx' = 0
    /\ tlog' = <<>>
    /\ texc' = ""
    /\ tpc' = "run"
    /\ UNCHANGED <<mvars, file, today, ticks, obj, pc, framevars, obsvars, outcome, calls, steps, hist,
                   epc, xvars, runs, first_run, df, cleaned>>

\* transform, lines 392-412 for one response: its messages go to
\* _log_message, then its data points become records until int() or float()
\* raises.
TransformResponse ==
    /\ tpc = "run"
    /\ tidx < Len(lst_of_queries)
    /\ LET response == lst_of_queries[tidx + 1]
           r == AppendRecords(PointsOf(response))
       IN /\ tlog' = IF response.message # <<>>
                     THEN tlog \o LogMessage(response.message)
                     ELSE tlog
          /\ final_dct_lst' = final_dct_lst \o r.records
          /\ tpc' = IF r.raised THEN "raised" ELSE "run"
          /\ texc' = IF r.raised THEN "ValueError" ELSE texc
    /\ tidx' = tidx + 1
    /\ UNCHANGED <<mvars, file, today, ticks, obj, pc, framevars, obsvars, outcome, calls, steps, hist,
                   epc, xvars, runs, first_run, df, cleaned>>

\* transform: the loop over self.lst_of_queries is done.
TransformReturn ==
    /\ tpc = "run"
    /\ tidx = Len(lst_of_queries)
    /\ tpc' = "returned"
    /\ runs' = runs + 1
    /\ first_run' = IF runs = 0 THEN final_dct_lst ELSE first_run
    /\ UNCHANGED <<mvars, file, today, ticks, obj, pc, framevars, obsvars, outcome, calls, steps, hist,
                   epc, xvars, tidx, final_dct_lst, tlog, texc, df, cleaned>>

\* A caller hands the frame to _drop_nulls_and_duplicates.
CallDropNullsAndDuplicates ==
    /\ tpc = "none"
    /\ cleaned' = DropNullsAndDuplicates(df)
    /\ tpc' = "cleaned"
    /\ UNCHANGED <<mvars, file, today, ticks, obj, pc, framevars, obsvars, outcome, calls, steps, hist,
                   epc, xvars, tidx, final_dct_lst, tlog, texc, runs, first_run, df>>

\* _convert_adjusted, lines 377-380: both assignments change the frame that
\* was passed, and that same frame is returned.
CallConvertAdjusted ==
    /\ tpc = "none"
    /\ meta' = ConvertAdjusted(meta)
    /\ tagged' = meta'
    /\ tpc' = "converted"
    /\ UNCHANGED <<file, today, ticks, obj, pc, framevars, obsvars, outcome, calls, steps, hist,
                   epc, xvars, tidx, final_dct_lst, tlog, texc, runs, first_run, df, cleaned,
                   meta_in, procs, last_write, ctor, main_run>>

\* ------------------------------------------------------------------------
\* The ledger steps of two processes, interleaved at the file operations:
\* os.path.exists, open and read, os.remove, open "w" and write, open "a"
\* and write.  A with block is one step.  The position of process p:
\*   c_exists, c_read   _read_query called from _create_query_file
\*   c_check ... c_write   the rest of _create_query_file
\*   i_exists, i_read   _read_query called from _increment_query_count
\*   i_check, i_append  the rest of _increment_query_count
\*   done, failed       both steps returned; an exception left the step
\* ------------------------------------------------------------------------
ProcGoes(p, newpc, o) == procs' = [procs EXCEPT ![p] = [pc |-> newpc, obj |-> o, exc |-> ""]]

ProcFails(p, e, o) == procs' = [procs EXCEPT ![p] = [pc |-> "failed", obj |-> o, exc |-> e]]

RaceFrame ==
    UNCHANGED <<tvars, meta, meta_in, tagged, ctor, main_run, today, ticks, obj, pc, framevars, obsvars,
                outcome, calls, steps, hist, epc, xvars>>

\* _read_query, line 131: os.path.exists.
RaceExists(p) ==
    /\ procs[p].pc \in {"c_exists", "i_exists"}
    /\ LET m == IF procs[p].pc = "c_exists" THEN "c" ELSE "i"
       IN ProcGoes(p, IF file.exists
                      THEN (IF m = "c" THEN "c_read" ELSE "i_read")
                      ELSE (IF m = "c" THEN "c_check" ELSE "i_check"), procs[p].obj)
    /\ UNCHANGED <<file, last_write>>
    /\ RaceFrame

\* _read_query, lines 133-148: open(file, "r") and the reads.
RaceRead(p) ==
    /\ procs[p].pc \in {"c_read", "i_read"}
    /\ IF ~file.exists
       THEN ProcFails(p, "FileNotFoundError", procs[p].obj)
       ELSE ProcGoes(p, IF procs[p].pc = "c_read" THEN "c_check" ELSE "i_check",
                     ReadQuery(procs[p].obj, file))
    /\ UNCHANGED <<file, last_write>>
    /\ RaceFrame

\* _create_query_file, lines 161-164: the day, and the test for a stale file.
RaceCreateCheck(p) ==
    /\ procs[p].pc = "c_check"
    /\ LET o == [procs[p].obj EXCEPT !.current_query_day = today, !.just_created = FALSE]
       IN IF file.exists /\ o.first_query_day = UNSET
          THEN ProcFails(p, "AttributeError", o)
          ELSE ProcGoes(p, IF IsStale(o, file, today) THEN "c_remove" ELSE "c_exists2", o)
    /\ UNCHANGED <<file, last_write>>
    /\ RaceFrame

\* _create_query_file, line 165: os.remove.
RaceRemove(p) ==
    /\ procs[p].pc = "c_remove"
    /\ IF ~file.exists
       THEN /\ ProcFails(p, "FileNotFoundError", procs[p].obj)
            /\ UNCHANGED <<file, last_write>>
       ELSE /\ ProcGoes(p, "c_exists2", procs[p].obj)
            /\ file' = NoFile
            /\ last_write' = <<0, 0>>
    /\ RaceFrame

\* _create_query_file, line 167: os.path.exists.
RaceExists2(p) ==
    /\ procs[p].pc = "c_exists2"
    /\ ProcGoes(p, IF ~file.exists THEN "c_write" ELSE "i_exists", procs[p].obj)
    /\ UNCHANGED <<file, last_write>>
    /\ RaceFrame

\* _create_query_file, lines 168-174: open(file, "w") and the first entry.
RaceWrite(p) ==
    /\ procs[p].pc = "c_write"
    /\ ProcGoes(p, "i_exists",
                [procs[p].obj EXCEPT !.first_query_day = today, !.count = 1,
                                     !.just_created = TRUE])
    /\ file' = WriteFile(<<1, today>>)
    /\ last_write' = <<1, today>>
    /\ RaceFrame

\* _increment_query_count, lines 184-191: the day, the test of the limit,
\* and the test of just_created.
RaceIncrementCheck(p) ==
    /\ procs[p].pc = "i_check"
    /\ LET o == [procs[p].obj EXCEPT !.current_query_day = today]
       IN IF file.exists /\ o.last_query_count = UNSET
          THEN ProcFails(p, "AttributeError", o)
          ELSE IF QuotaExceeded(o, file, today)
          THEN ProcFails(p, MSG_QUOTA, o)
          ELSE ProcGoes(p, IF ~o.just_created THEN "i_append" ELSE "done", o)
    /\ UNCHANGED <<file, last_write>>
    /\ RaceFrame

\* Mutant: the entry appended is two above the count read.
RaceAppend_CountsTwo(p) ==
    /\ procs[p].pc = "i_append"
    /\ IF procs[p].obj.last_query_count = UNSET
       THEN /\ ProcFails(p, "AttributeError", procs[p].obj)
            /\ UNCHANGED <<file, last_write>>
       ELSE /\ ProcGoes(p, "done", procs[p].obj)
            /\ file' = AppendFile(file, <<procs[p].obj.last_query_count + 2, today>>)
            /\ last_write' = <<procs[p].obj.last_query_count + 2, today>>
    /\ RaceFrame

\* _increment_query_count, lines 192-193: open(file, "a") and the entry.
RaceAppend(p) ==
    /\ procs[p].pc = "i_append"
    /\ IF procs[p].obj.last_query_count = UNSET
       THEN /\ ProcFails(p, "AttributeError", procs[p].obj)
            /\ UNCHANGED <<file, last_write>>
       ELSE /\ ProcGoes(p, "done", procs[p].obj)
            /\ file' = AppendFile(file, <<procs[p].obj.last_query_count + 1, today>>)
            /\ last_write' = <<procs[p].obj.last_query_count + 1, today>>
    /\ RaceFrame

\* BlsApiCall(...) runs __init__.
Construct ==
    /\ ctor.ended = "none"
    /\ ctor.args # <<>>
    /\ LET a == ctor.args
           r == BlsApiCallInit(a.start_year, a.end_year, a.this_year, a.national_series,
                               a.state_series, a.number_of_series)
       IN /\ ctor' = [args |-> a, ended |-> r.ended, msg |-> r.msg, obj |-> r.obj]
          /\ obj' = IF r.ended = "built" THEN r.obj ELSE obj
          /\ series_df' = IF r.ended = "built"
                          THEN (IF a.state_series = NoSeries
                                THEN a.national_series.ids ELSE a.state_series.ids)
                          ELSE series_df
    /\ UNCHANGED <<tvars, meta, meta_in, tagged, procs, last_write, main_run, file, today, ticks, pc,
                   framevars, obsvars, outcome, calls, steps, hist, epc, series_id_lst,
                   batch_progress, lst_of_queries, pauses, batches>>

\* main() runs up to read_file.
RunMain ==
    /\ main_run.at = "start"
    /\ main_run.ended = "none"
    /\ main_run.args # <<>>
    /\ main_run' = Main(main_run.args)
    /\ UNCHANGED <<tvars, meta, meta_in, tagged, procs, last_write, ctor, file, today, ticks,
                   obj, pc, framevars, obsvars, outcome, calls, steps, hist, epc, xvars>>

\* main, lines 246-262: read_file returns, or main logs its error and calls
\* sys.exit(1).
MainReadFile ==
    /\ main_run.at = "read_file"
    /\ \E ok \in BOOLEAN :
          main_run' = IF ok THEN [main_run EXCEPT !.at = "instantiate"]
                      ELSE [main_run EXCEPT !.at = "exit",
                               !.errors = Append(main_run.errors,
                                                 [stage |-> "read_file", exc |-> "Exception"])]
    /\ UNCHANGED <<tvars, meta, meta_in, tagged, procs, last_write, ctor, file, today, ticks,
                   obj, pc, framevars, obsvars, outcome, calls, steps, hist, epc, xvars>>

\* A stage of main whose try block is entered at the statement 'stage': the
\* call returns or ends with an exception.
MainStage(stage) ==
    /\ main_run.at = stage
    /\ \/ main_run' = StageReturned(main_run, stage)
       \/ \E e \in StageErrors : main_run' = StageRaised(main_run, stage, e)
    /\ UNCHANGED <<tvars, meta, meta_in, tagged, procs, last_write, ctor, file, today, ticks,
                   obj, pc, framevars, obsvars, outcome, calls, steps, hist, epc, xvars>>

\* main, lines 264-273: BlsApiCall(...).
MainInstantiate == MainStage("instantiate")

\* main, lines 275-281: api_engine.extract().
MainExtract == MainStage("extract")

\* main, lines 283-289: api_engine.transform().
MainTransform == MainStage("transform")

\* main, lines 291-297: api_engine.load().
MainLoad == MainStage("load")

Next ==
    \/ Tick
    \/ CallBlsRequest
    \/ BlsCreate
    \/ BlsIncrement
    \/ BlsPost

Spec == Init /\ [][Next]_vars

NextLedger ==
    \/ TestCreate
    \/ TestIncrement
    \/ CallBlsRequestOnce
    \/ BlsCreate
    \/ BlsIncrement
    \/ BlsPost

SpecLedger == InitLedger /\ [][NextLedger]_vars

NextReruns ==
    \/ Tick
    \/ NewInstance
    \/ CallBlsRequestAgain
    \/ BlsCreate
    \/ BlsIncrement
    \/ BlsPostProvider

SpecReruns == InitReruns /\ [][NextReruns]_vars

NextExtract ==
    \/ ExtractStart
    \/ ExtractBatch
    \/ ExtractAppend
    \/ ExtractReturn
    \/ BlsCreate
    \/ BlsIncrement
    \/ BlsPost

SpecExtract == InitExtract /\ [][NextExtract]_vars

\* extract with every statement that can run running in the end: requests.post
\* answers each call, and time.sleep returns.
SpecExtractFair == SpecExtract /\ WF_vars(NextExtract)

NextTransform ==
    \/ TransformStart
    \/ TransformResponse
    \/ TransformReturn

SpecTransform == InitTransform /\ [][NextTransform]_vars

NextPipeline ==
    \/ ExtractStart
    \/ ExtractBatch
    \/ ExtractAppend
    \/ ExtractReturn
    \/ BlsCreate
    \/ BlsIncrement
    \/ BlsPostProvider
    \/ TransformStart
    \/ TransformResponse
    \/ TransformReturn

SpecPipeline == InitPipeline /\ [][NextPipeline]_vars

NextClean == CallDropNullsAndDuplicates

SpecClean == InitClean /\ [][NextClean]_vars

SpecEndToEnd == InitEndToEnd /\ [][NextExtract]_vars

NextRace ==
    \E p \in Procs :
        \/ RaceExists(p)
        \/ RaceRead(p)
        \/ RaceCreateCheck(p)
        \/ RaceRemove(p)
        \/ RaceExists2(p)
        \/ RaceWrite(p)
        \/ RaceIncrementCheck(p)
        \/ RaceAppend(p)

SpecRace == InitRace /\ [][NextRace]_vars

NextConstruct == Construct

SpecConstruct == InitConstruct /\ [][NextConstruct]_vars

NextMain ==
    \/ RunMain
    \/ MainReadFile
    \/ MainInstantiate
    \/ MainExtract
    \/ MainTransform
    \/ MainLoad

SpecMain == InitMain /\ [][NextMain]_vars

NextConvert == CallConvertAdjusted

SpecConvert == InitConvert /\ [][NextConvert]_vars

\* ------------------------------------------------------------------------
\* Properties
\* ------------------------------------------------------------------------
LogCount(l) == Cardinality({i \in DOMAIN log : log[i].level = l})

QuotaError == Raised("Exception", "Queries may not exceed 500 within a day.", 0)

CallEnded == pc \in {"returned", "raised"}

\* The classes of what requests.post did, as the claims name them.
IsRetryStatus(r) == ~r.raises /\ r.status_code \in {500, 502, 503, 504}

IsFatalStatus(r) == ~r.raises /\ r.status_code \notin {200, 500, 502, 503, 504}

IsNonHttpFailure(r) ==
    r.raises \/ (r.status_code = 200 /\ r.json.status # "REQUEST_SUCCEEDED")

IsSuccess(r) == ~r.raises /\ r.status_code = 200 /\ r.json.status = "REQUEST_SUCCEEDED"

AllRetryable == \A i \in DOMAIN responses : IsRetryStatus(responses[i])

RECURSIVE Flatten(_)
Flatten(ss) == IF ss = <<>> THEN <<>> ELSE Head(ss) \o Flatten(Tail(ss))

\* C1 (SpecLedger): starting from no quota file, after K ledger steps
\* (_create_query_file, then _increment_query_count) of one day the persisted
\* call count is K, for every K in 1..500; after 500 steps the next
\* bls_request with valid arguments ends with the quota error and has sent
\* no request.
C1_QuotaMonotonicity ==
    /\ steps <= 500
    /\ (calls = 0 /\ pc = "idle") => PersistedCount(file) = steps
    /\ (calls = 1 /\ steps = 500 /\ Len(series) <= 50 /\ end_year - start_year <= 20)
          => \/ pc \in {"create", "increment"} /\ sent = <<>>
             \/ pc = "raised" /\ outcome = QuotaError /\ sent = <<>> /\ responses = <<>>

C1_Witness ==
    /\ steps = 500
    /\ PersistedCount(file) = 500
    /\ calls = 1
    /\ pc = "raised"
    /\ outcome = QuotaError
    /\ sent = <<>>

\* C2 (Spec): whenever the day of the persisted record differs from the
\* current day, whether the current day number is larger or smaller, the
\* ledger step of the attempt replaces the record by the single entry
\* <<1, current day>>.  Stated for the state right after _create_query_file.
C2_DayRollover ==
    (pc = "increment" /\ hist.before.exists /\ PersistedDay(hist.before) # hist.day_at_create)
        => file = WriteFile(<<1, hist.day_at_create>>)

\* The calls the quota file records for day d: the count of its last line
\* when that line is of day d, none otherwise.
CallsToday(f, d) == IF f.exists /\ PersistedDay(f) = d THEN PersistedCount(f) ELSE 0

LedgerStepAsCoded ==
    /\ pc = "post" =>
          /\ hist.ledger_steps = Len(sent) + 1
          /\ file.exists
          /\ PersistedCount(file) = IF hist.reset THEN 1 ELSE PersistedCount(hist.before) + 1
    /\ pc # "post" => hist.ledger_steps = Len(sent)
    /\ (pc = "raised" /\ outcome.msg = "API Error: " /\ ~hist.removed)
          => PersistedCount(file) = PersistedCount(hist.file_at_call) + 3
    /\ (pc = "raised" /\ outcome.kind = "HTTPError" /\ Len(responses) = 1 /\ ~hist.removed)
          => PersistedCount(file) = PersistedCount(hist.file_at_call) + 1

\* C4 (Spec): three consecutive responses with a status in {500, 502, 503,
\* 504} are exactly 3 network attempts with 3 warnings, and bls_request then
\* raises 'API Error: <status of the last attempt>' with exactly one critical
\* record; before the third attempt a retryable failure ends the call only
\* through the quota error.
C4_RetryExhaustion ==
    /\ Len(responses) <= 3
    /\ (Len(responses) = 3 /\ AllRetryable) =>
          /\ pc = "raised"
          /\ outcome = Raised("Exception", "API Error: ", responses[3].status_code)
          /\ Len(sent) = 3
          /\ LogCount("warning") = 3
          /\ LogCount("critical") = 1
    /\ (CallEnded /\ responses # <<>> /\ Len(responses) < 3 /\ AllRetryable)
          => outcome = QuotaError

C4_Witness ==
    /\ Len(responses) = 3
    /\ AllRetryable
    /\ responses[1].status_code = 500
    /\ responses[3].status_code = 504
    /\ pc = "raised"
    /\ outcome.status = 504
    /\ LogCount("warning") = 3

\* C5 (Spec): a response whose status is neither 200 nor in {500, 502, 503,
\* 504} is the last of its call, on whichever attempt it arrives:
\* bls_request raises HTTPError 'HTTP Error: <status>' with exactly one
\* critical record, and warnings and sleeps exist for the earlier attempts
\* only; a first response of 400 is exactly 1 network attempt.
C5_FatalStatusNotRetried ==
    \A i \in DOMAIN responses :
        IsFatalStatus(responses[i]) =>
            /\ i = Len(responses)
            /\ pc = "raised"
            /\ outcome = Raised("HTTPError", "HTTP Error: ", responses[i].status_code)
            /\ Len(sent) = i
            /\ LogCount("critical") = 1
            /\ LogCount("warning") = i - 1
            /\ Len(sleeps) = i - 1

C5_Witness ==
    /\ Len(responses) = 1
    /\ responses[1].status_code = 400
    /\ pc = "raised"
    /\ outcome.kind = "HTTPError"
    /\ Len(sent) = 1
    /\ sleeps = <<>>

C7_PreconditionRejection ==
    /\ (outcome.kind = "ValueError") <=> (Len(series) > 50 \/ end_year - start_year > 20)
    /\ outcome.kind = "ValueError" =>
          /\ pc = "raised"
          /\ file = hist.file_at_call
          /\ hist.ledger_steps = 0
          /\ hist.day_at_create = 0
          /\ sent = <<>>
          /\ responses = <<>>
          /\ log = <<>>

C7_Witness ==
    /\ outcome.kind = "ValueError"
    /\ Len(series) = 50
    /\ end_year - start_year = 21
    /\ file.exists
    /\ sent = <<>>

\* A call with a batch of exactly 50 identifiers and a range of exactly 20
\* years went on to the network.
C7_BoundaryAccepted ==
    /\ Len(series) = 50
    /\ end_year - start_year = 20
    /\ pc = "returned"

\* C8 (Spec): when the ledger step of an attempt, the first or a retry, finds
\* today's count at 500 (a record whose first and last line carry today's
\* day), bls_request ends at once with the quota error: the requests sent are
\* those of the earlier attempts, and the error is not the API error.
C8_QuotaErrorPropagates ==
    /\ hist.quota_found =>
          /\ pc = "raised"
          /\ outcome = QuotaError
    /\ outcome = QuotaError =>
          /\ pc = "raised"
          /\ Len(sent) = hist.ledger_steps
          /\ Len(responses) = Len(sent)
          /\ Len(sent) = attempt - 1
          /\ AllRetryable
          /\ LogCount("critical") = 1

C8_Witness ==
    /\ hist.quota_found
    /\ outcome = QuotaError
    /\ attempt = 3
    /\ Len(sent) = 2

\* C9 (Spec): when the responses to one bls_request are k-1 retryable
\* failures followed by 200 with REQUEST_SUCCEEDED, k in 1..3, bls_request
\* has made exactly k network attempts and returns the JSON of the last
\* response; every request is a POST to the fixed endpoint with the series
\* ids, the start year, the end year and the registration key of the call.
C9_SuccessAfterRetries ==
    /\ \A i \in DOMAIN responses :
          IsSuccess(responses[i]) =>
              /\ i = Len(responses)
              /\ i \in 1..3
              /\ pc = "returned"
              /\ outcome = Returned(responses[i].json)
              /\ Len(sent) = i
              /\ \A j \in 1..(i - 1) : IsRetryStatus(responses[j])
    /\ pc = "returned" => (responses # <<>> /\ IsSuccess(responses[Len(responses)]))
    /\ \A i \in DOMAIN sent :
          sent[i] = [url |-> "https://api.bls.gov/publicAPI/v2/timeseries/data/",
                     data |-> [seriesid |-> series, startyear |-> start_year,
                               endyear |-> end_year, registrationKey |-> API_KEY]]

C9_Witness ==
    /\ pc = "returned"
    /\ Len(responses) = 3
    /\ IsRetryStatus(responses[1])
    /\ IsRetryStatus(responses[2])
    /\ outcome.value = [status |-> "REQUEST_SUCCEEDED", tag |-> "B"]
    /\ Len(sent) = 3

\* C10 (SpecExtract): extract hands the identifier list to bls_request in
\* ceil(N/50) batches, every batch of 50 except possibly the last, none
\* empty, and the batches in the order sent make up the list.
C10_Batching ==
    /\ epc # "none" => Flatten(batches) = SubSeq(series_id_lst, 1, batch_progress)
    /\ \A i \in DOMAIN batches :
          /\ Len(batches[i]) \in 1..50
          /\ i < Len(batches) => Len(batches[i]) = 50
          /\ Len(batches[i]) < 50 => batch_progress = Len(series_id_lst)
    /\ epc \in {"call", "raised"} =>
          /\ batches # <<>>
          /\ series = batches[Len(batches)]
          /\ \A i \in DOMAIN sent : sent[i].data.seriesid = series
    /\ epc = "returned" =>
          /\ Len(batches) = (Len(series_id_lst) + 49) \div 50
          /\ Len(lst_of_queries) = Len(batches)
          /\ Flatten(batches) = series_id_lst
    /\ (epc # "none" /\ obj.number_of_series = Len(series_df)) => series_id_lst = series_df

C10_Witness ==
    /\ epc = "returned"
    /\ Len(series_id_lst) = 100
    /\ Len(batches) = 2
    /\ Len(batches[2]) = 50
    /\ Flatten(batches) = series_df

\* C11 (SpecExtract): extract works through the batches one at a time and in
\* input order: while bls_request runs for batch k the responses of batches
\* 1..k-1 are stored and every request sent carries batch k, every request
\* sent has been answered before anything else happens, and the i-th entry
\* of lst_of_queries is the body that answered the request for batch i.
C11_SequentialBatches ==
    /\ Len(responses) = Len(sent)
    /\ epc = "call" =>
          /\ Len(lst_of_queries) = Len(batches) - 1
          /\ \A i \in DOMAIN sent : sent[i].data.seriesid = batches[Len(batches)]
    /\ epc \in {"loop", "returned"} => Len(lst_of_queries) = Len(batches)
    /\ epc # "none" =>
          /\ Len(hist.served) \in {Len(lst_of_queries), Len(lst_of_queries) + 1}
          /\ \A i \in DOMAIN lst_of_queries :
                /\ hist.served[i].seriesid = batches[i]
                /\ lst_of_queries[i] = hist.served[i].json

C11_Witness ==
    /\ epc = "returned"
    /\ Len(batches) = 3
    /\ lst_of_queries[1].tag = "A"
    /\ lst_of_queries[2].tag = "B"
    /\ lst_of_queries[3].tag = "A"
    /\ hist.served[3].seriesid = <<101>>

\* C12 (SpecExtract): when bls_request for batch i ends in an error (the
\* ValueError of the precondition, the quota error, a non-retryable status,
\* a rejected response, or the API error after the retries), extract ends
\* with that error, lst_of_queries holds the responses of batches 1..i-1,
\* and nothing is sent, batched or stored afterwards.
C12_FatalErrorAbortsExtract ==
    /\ [](/\ (epc # "none" /\ pc = "raised") => epc = "raised"
          /\ epc = "raised" =>
                /\ pc = "raised"
                /\ outcome.kind \in {"ValueError", "HTTPError", "Exception"}
                /\ outcome.msg \in {"Can only take in up to 20 years per query.",
                                    "Queries may not exceed 500 within a day.",
                                    "HTTP Error: ",
                                    "Response Status from API is not \"REQUEST_SUCCEEDED\"",
                                    "API Error: "}
                /\ Len(lst_of_queries) = Len(batches) - 1
                /\ \A i \in DOMAIN lst_of_queries :
                      /\ hist.served[i].seriesid = batches[i]
                      /\ lst_of_queries[i] = hist.served[i].json)
    /\ [][epc = "raised" =>
             /\ epc' = "raised"
             /\ outcome' = outcome
             /\ sent' = sent
             /\ batches' = batches
             /\ lst_of_queries' = lst_of_queries]_vars

C12_Witness ==
    /\ epc = "raised"
    /\ outcome.kind = "HTTPError"
    /\ Len(batches) = 2
    /\ Len(lst_of_queries) = 1
    /\ Len(series_id_lst) = 101

\* Every kind of error ends extract in some run.
C12_QuotaWitness == epc = "raised" /\ outcome = QuotaError /\ Len(lst_of_queries) = 1

\* The data points, and the messages, of the first k responses of
\* lst_of_queries in the order transform reaches them.
RECURSIVE PointsUpTo(_)
PointsUpTo(k) == IF k = 0 THEN <<>> ELSE PointsUpTo(k - 1) \o PointsOf(lst_of_queries[k])

RECURSIVE MessagesUpTo(_)
MessagesUpTo(k) == IF k = 0 THEN <<>> ELSE MessagesUpTo(k - 1) \o lst_of_queries[k].message

\* Data points whose year and value are numbers.
NumericPoints == {DP_OK, DP_OK2, DP_EMPTY_FOOTNOTES, DP_STR_FOOTNOTES}

\* C13 (SpecTransform): a data point with the value "-" that transform has
\* reached (after data points with numeric year and value only) has its
\* record in final_dct_lst, with a null value.
C13_DashValueIsNull ==
    LET points == PointsUpTo(tidx)
    IN \A j \in DOMAIN points :
          (/\ points[j].data_point = DP_DASH
           /\ \A i \in 1..(j - 1) : points[i].data_point \in NumericPoints)
             => /\ j <= Len(final_dct_lst)
                /\ final_dct_lst[j].value = PyNone
                /\ final_dct_lst[j].seriesID = points[j].seriesID

\* C14 (SpecTransform): the record of a data point whose footnotes are the
\* list holding one empty object has null footnotes, and the record of a
\* data point with any other list of footnotes has the str() of the list.
C14_EmptyFootnotesAreNull ==
    LET points == PointsUpTo(tidx)
    IN \A j \in DOMAIN final_dct_lst :
          /\ points[j].data_point.footnotes = PyList(<<"{}">>)
                => final_dct_lst[j].footnotes = PyNone
          /\ points[j].data_point.footnotes \in {FOOTNOTES_P, FOOTNOTES_TWO}
                => final_dct_lst[j].footnotes = Str(points[j].data_point.footnotes)

\* C15 (SpecTransform): transform never raises, and final_dct_lst has one
\* record for every data point of the responses it has taken up.
C15_NoRaiseOnMalformedPoint ==
    /\ tpc # "raised"
    /\ texc = ""
    /\ tpc \in {"run", "returned"} => Len(final_dct_lst) = Len(PointsUpTo(tidx))

\* C16 (SpecTransform): a run of transform that returns leaves one record
\* per data point, in response, series, data-point order; a second run on
\* the same responses leaves the same list as the first, and no run changes
\* the responses.
C16_TransformRepeatable ==
    /\ [](tpc = "returned" =>
            LET points == PointsUpTo(Len(lst_of_queries))
            IN /\ Len(final_dct_lst) = Len(points)
               /\ \A j \in DOMAIN points :
                     /\ final_dct_lst[j].seriesID = points[j].seriesID
                     /\ final_dct_lst[j].period = points[j].data_point.period
                     /\ final_dct_lst[j].period_name = points[j].data_point.periodName
               /\ runs >= 2 => final_dct_lst = first_run)
    /\ [][lst_of_queries' = lst_of_queries]_vars

C16_Witness ==
    /\ tpc = "returned"
    /\ runs = 2
    /\ Len(lst_of_queries) = 2
    /\ Len(final_dct_lst) = 3
    /\ final_dct_lst = first_run
    /\ final_dct_lst[1].period # final_dct_lst[2].period

\* C17 (SpecTransform): every message of a response with messages gives
\* exactly one warning: 'No Data Available for Series <id> Year: <yyyy>' the
\* no-data entry with that id and year, 'Series does not exist for Series
\* <id>' the unknown-series entry with that id, any other text the text
\* itself; no message ends transform, and the records of a response whose
\* data points are numeric are produced whatever its messages.
C17_MessagesClassified ==
    LET messages == MessagesUpTo(tidx)
        points == PointsUpTo(tidx)
    IN /\ Len(tlog) = Len(messages)
       /\ \A k \in DOMAIN tlog :
             /\ tlog[k].level = "warning"
             /\ messages[k] = MSG_NO_DATA =>
                   tlog[k].entry = [message |-> "No Data Available",
                                    series_id |-> <<"S", "M", "U", "0", "1">>,
                                    year |-> <<"1", "9", "7", "2">>]
             /\ messages[k] = MSG_NO_SERIES =>
                   tlog[k].entry = [message |-> "Series does not exist",
                                    series_id |-> <<"S", "M", "U", "0", "2">>]
             /\ messages[k] \notin {MSG_NO_DATA, MSG_NO_SERIES} =>
                   tlog[k].entry = [text |-> messages[k]]
       /\ (\A j \in DOMAIN points : points[j].data_point \in NumericPoints)
             => /\ tpc # "raised"
                /\ Len(final_dct_lst) = Len(points)

C17_Witness ==
    /\ tpc = "returned"
    /\ Len(tlog) = 2
    /\ tlog[1].entry = [text |-> MSG_NO_SERIES_MORE]
    /\ tlog[2].entry.message = "Series does not exist"
    /\ Len(final_dct_lst) = 3

\* C18 (SpecClean): given rows without nulls, _drop_nulls_and_duplicates
\* removes exactly the rows that are equal in every column to an earlier
\* row, and keeps the others in their order; with one such row in the frame
\* the result is one row shorter.
C18_ExactDuplicatesRemoved ==
    (tpc = "cleaned" /\ \A i \in DOMAIN df : df[i].value # PyNone /\ df[i].footnotes # PyNone)
        => LET repeats == {i \in DOMAIN df : \E j \in 1..(i - 1) : df[j] = df[i]}
           IN /\ {cleaned[k].i : k \in DOMAIN cleaned} = DOMAIN df \ repeats
              /\ \A k \in DOMAIN cleaned : cleaned[k].row = df[cleaned[k].i]
              /\ \A k \in 1..(Len(cleaned) - 1) : cleaned[k].i < cleaned[k + 1].i
              /\ Cardinality(repeats) = 1 => Len(cleaned) = Len(df) - 1

\* C19 (SpecClean): a row with a null value or null footnotes that shares
\* its (seriesID, year, period) with no earlier row is in the frame
\* _drop_nulls_and_duplicates returns.
C19_NullRowsSurvive ==
    tpc = "cleaned" =>
        \A i \in DOMAIN df :
            (/\ df[i].value = PyNone \/ df[i].footnotes = PyNone
             /\ \A j \in 1..(i - 1) :
                   <<df[j].seriesID, df[j].year, df[j].period>>
                      # <<df[i].seriesID, df[i].year, df[i].period>>)
               => \E k \in DOMAIN cleaned : cleaned[k].i = i

\* C20 (SpecPipeline): when extract and transform have run, no two records
\* of final_dct_lst have the same (seriesID, year, period).
C20_UniqueRecords ==
    tpc = "returned" =>
        \A i \in DOMAIN final_dct_lst : \A j \in DOMAIN final_dct_lst :
            i # j => <<final_dct_lst[i].seriesID, final_dct_lst[i].year, final_dct_lst[i].period>>
                        # <<final_dct_lst[j].seriesID, final_dct_lst[j].year, final_dct_lst[j].period>>

\* ------------------------------------------------------------------------
\* C21: for every series name, if it ends (case-insensitively) in
\* ', seasonally adjusted' the suffix is stripped and is_adjusted is true; if
\* it ends in ', not seasonally adjusted' the suffix is stripped and
\* is_adjusted is false; every other name gets is_adjusted null.
\* ------------------------------------------------------------------------
C21_AdjustmentTagging ==
    tpc = "converted" =>
        /\ Len(tagged) = Len(meta_in)
        /\ \A i \in DOMAIN meta_in :
              LET name == meta_in[i].series
                  stripped == SubSeq(name, 1, Len(name) - 1)
              IN /\ EndsWith(Lower(name), adjusted) =>
                        /\ tagged[i].series = stripped
                        /\ tagged[i].is_adjusted = PyBool(TRUE)
                 /\ EndsWith(Lower(name), not_adjusted) =>
                        /\ tagged[i].series = stripped
                        /\ tagged[i].is_adjusted = PyBool(FALSE)
                 /\ (~EndsWith(Lower(name), adjusted) /\ ~EndsWith(Lower(name), not_adjusted)) =>
                        tagged[i].is_adjusted = PyNone

\* The is_adjusted column alone is as C21 says, for every name.
IsAdjustedAsClaimed ==
    tpc = "converted" =>
        \A i \in DOMAIN meta_in :
            LET name == Lower(meta_in[i].series)
            IN tagged[i].is_adjusted =
                  IF EndsWith(name, adjusted) THEN PyBool(TRUE)
                  ELSE IF EndsWith(name, not_adjusted) THEN PyBool(FALSE)
                  ELSE PyNone

\* ------------------------------------------------------------------------
\* C22: after _convert_adjusted returns, the frame the caller passed in is
\* unchanged (same names, no added is_adjusted column); only the returned
\* frame carries the tagging.
\* ------------------------------------------------------------------------
C22_InputNotMutated ==
    tpc = "converted" => meta = meta_in

\* ------------------------------------------------------------------------
\* C23: extract pauses exactly once after each batch whose bls_request
\* returned, before the next batch is started, and never after a batch that
\* failed.  The pauses so far are as many as the stored responses; while a
\* batch is with bls_request, and after it failed, they are the batches
\* before it.
\* ------------------------------------------------------------------------
C23_PauseAfterEachSuccess ==
    epc # "none" =>
        /\ pauses = Len(lst_of_queries)
        /\ epc \in {"call", "raised"} => pauses = Len(batches) - 1
        /\ epc \in {"loop", "returned"} => pauses = Len(batches)

\* A batch returned and was followed by its pause; the next batch failed
\* after a request and no pause followed it.
C23_Witness ==
    /\ epc = "raised"
    /\ Len(batches) = 2
    /\ pauses = 1
    /\ Len(responses) >= 1

\* ------------------------------------------------------------------------
\* C24: end-to-end with 120 identifiers and every batch succeeding on its
\* first attempt: 3 requests are sent (batch sizes 50, 50, 20), there are 3
\* logged successes, the quota count of the day rises by exactly 3, and the
\* inter-batch pause is observed exactly twice.
\* ------------------------------------------------------------------------
\* extract has returned and requests.post was called once per batch.
AllFirstAttempt ==
    /\ epc = "returned"
    /\ Len(series_id_lst) = END_TO_END_IDS
    /\ hist.attempts = Len(batches)

\* The 'Request #n: Status Code ... REQUEST_SUCCEEDED' records in the log.
SuccessRecords ==
    {i \in DOMAIN log :
        log[i].level = "info" /\ log[i].msg = "Request Status Code Response"}

\* All of C24 but the number of pauses.
EndToEndRequests ==
    /\ hist.attempts = 3
    /\ [i \in DOMAIN batches |-> Len(batches[i])] = <<50, 50, 20>>
    /\ Len(hist.served) = 3
    /\ [i \in 1..3 |-> hist.served[i].seriesid] = batches
    /\ Cardinality(SuccessRecords) = 1

C24_EndToEnd120 ==
    AllFirstAttempt =>
        /\ EndToEndRequests
        /\ CallsToday(file, today) = CallsToday(hist.file_at_extract, today) + 3
        /\ pauses = 2

\* What the code does in the scenario of C24: one pause per batch, and the
\* persisted count goes up by 3 from its value, or from 0 when the record
\* was absent or removed as stale.
EndToEnd120AsCoded ==
    AllFirstAttempt =>
        /\ EndToEndRequests
        /\ PersistedCount(file) =
              3 + (IF hist.file_at_extract.exists
                      /\ ~(today - hist.file_at_extract.first[2] > 0)
                   THEN PersistedCount(hist.file_at_extract) ELSE 0)
        /\ pauses = 3

\* Each bls_request that returned after one attempt logged one success.
OneSuccessRecordPerBatch ==
    (epc = "call" /\ pc = "returned") => Cardinality(SuccessRecords) = 1

EndToEnd120Reached == AllFirstAttempt /\ pauses = 3

\* ------------------------------------------------------------------------
\* C25: every network attempt of bls_request produces exactly one log record
\* classifying its outcome: info when it succeeds, warning when it fails
\* with a retryable status, critical when it fails fatally.  The records of
\* an attempt are those logged between requests.post and the end of the
\* pass of the loop; the 'Request #n: ... SeriesIDs' record, which names the
\* request, and the 'API Error' record after the loop are not counted.
\* ------------------------------------------------------------------------
OutcomeRecords(records) ==
    SelectSeq(records,
              LAMBDA e : e.msg \notin {"Request National", "Request State", MSG_API})

C25_OneRecordPerAttempt ==
    [][pc = "post" /\ pc' # "post" =>
          LET r == responses'[Len(responses')]
              recs == OutcomeRecords(SubSeq(log', Len(log) + 1, Len(log')))
          IN /\ Len(recs) = 1
             /\ recs[1].level = IF IsSuccess(r) THEN "info"
                                ELSE IF IsRetryStatus(r) THEN "warning"
                                ELSE "critical"]_vars

\* The same for the attempts that do not end in the answer 200 with a status
\* other than REQUEST_SUCCEEDED.
OneRecordUnlessRejected ==
    [][(pc = "post" /\ pc' # "post"
         /\ ~(LET r == responses'[Len(responses')]
              IN ~r.raises /\ r.status_code = HTTP_OK /\ ~IsSuccess(r))) =>
          LET r == responses'[Len(responses')]
              recs == OutcomeRecords(SubSeq(log', Len(log) + 1, Len(log')))
          IN /\ Len(recs) = 1
             /\ recs[1].level = IF IsSuccess(r) THEN "info"
                                ELSE IF IsRetryStatus(r) THEN "warning"
                                ELSE "critical"]_vars

\* ------------------------------------------------------------------------
\* C26: two processes that interleave their ledger steps on the same quota
\* file are tolerated: in every interleaving each ledger step either
\* succeeds or fails with the quota error and with no other failure, and the
\* count the next reader sees is the one written by the last writer.
\* ------------------------------------------------------------------------
C26_RaceTolerated ==
    /\ \A p \in Procs : procs[p].exc \in {"", MSG_QUOTA}
    /\ (file.exists /\ last_write # <<0, 0>>) => file.last = last_write

\* The second half alone: what the file holds is what was written last.
LastWriterWins ==
    (file.exists /\ last_write # <<0, 0>>) => file.last = last_write

\* Both processes went through both steps without an exception and both
\* appended the same count: one of the two calls is not counted.
LostUpdateReached ==
    /\ \A p \in Procs : procs[p].pc = "done" /\ ~procs[p].obj.just_created
    /\ procs[1].obj.last_query_count = procs[2].obj.last_query_count

\* ------------------------------------------------------------------------
\* C27: constructing BlsApiCall with valid years and with neither a
\* national nor a state series list, or with both, raises 'Argument must
\* only be one series list'; every successfully constructed instance has
\* exactly one of its national / state flags true, matching the list given.
\* ------------------------------------------------------------------------
ValidYears(a) ==
    /\ a.start_year > 0
    /\ a.end_year > 0
    /\ a.start_year <= a.end_year
    /\ a.end_year <= a.this_year

C27_ExactlyOneSeriesList ==
    ctor.ended # "none" =>
        LET a == ctor.args
            national_given == a.national_series # NoSeries
            state_given == a.state_series # NoSeries
        IN /\ (ValidYears(a) /\ national_given = state_given) =>
                  /\ ctor.ended = "Exception"
                  /\ ctor.msg = "Argument must only be one series list"
           /\ ctor.ended = "built" =>
                  /\ ctor.obj.national # ctor.obj.state
                  /\ ctor.obj.national = national_given
                  /\ ctor.obj.state = state_given

\* Both lists were given, as frames, with valid years, and __init__ raised.
C27_Witness ==
    /\ ctor.ended = "Exception"
    /\ ValidYears(ctor.args)
    /\ ctor.args.national_series.t = "DataFrame"
    /\ ctor.args.state_series.t = "DataFrame"

\* An instance was built from a state series list.
C27_BuiltWitness ==
    /\ ctor.ended = "built"
    /\ ctor.obj.state
    /\ ctor.args.state_series.t = "DataFrame"

\* ------------------------------------------------------------------------
\* C28: validate_years returns the first failing rule in this fixed order:
\* years not integers, a year not positive, end year in the future, start
\* year after end year, range end - start greater than 20; it returns
\* (True, None) exactly when no rule fails, and main raises ValueError with
\* that rule's message before reading the CSV or constructing BlsApiCall.
\* ------------------------------------------------------------------------
\* The rules as the claim lists them, on the years of the run of main.
IsInteger(year) == year.t = "int" \/ year.text = "2000"
NumberOf(year) == IF year.t = "int" THEN year.n ELSE 2000

FirstFailingRule(a) ==
    LET s == NumberOf(a.start_year)
        e == NumberOf(a.end_year)
    IN IF ~IsInteger(a.start_year) \/ ~IsInteger(a.end_year) THEN "integers"
       ELSE IF s <= 0 \/ e <= 0 THEN "positive"
       ELSE IF e > a.this_year THEN "future"
       ELSE IF s > e THEN "order"
       ELSE IF e - s > 20 THEN "range"
       ELSE "none"

MessageOfRule(rule, this_year) ==
    CASE rule = "integers" -> <<"Error: Years must be integers.">>
      [] rule = "positive" -> <<"Error: Years must be positive integers.">>
      [] rule = "future" ->
            <<"Error: End year cannot be in the future (current year: ", this_year, ").">>
      [] rule = "order" -> <<"Error: Start year must be before end year.">>
      [] rule = "range" ->
            <<"Error: Year range cannot exceed 20 years due to API limitations.">>
      [] OTHER -> <<>>

\* validate_years alone is as C28 says.
ValidateYearsAsClaimed ==
    main_run.args # <<>> =>
        LET a == main_run.args
            rule == FirstFailingRule(a)
            r == validate_years(a.start_year, a.end_year, a.this_year)
        IN /\ r.valid = (rule = "none")
           /\ r.message = MessageOfRule(rule, a.this_year)

\* main is taken on a path that exists: with a path that does not, it
\* raises FileNotFoundError before it looks at the years.
C28_YearRulesInOrder ==
    /\ ValidateYearsAsClaimed
    /\ (main_run.ended # "none" /\ main_run.args.path_exists) =>
          LET a == main_run.args
              rule == FirstFailingRule(a)
          IN rule # "none" =>
                /\ main_run.ended = "ValueError"
                /\ main_run.message = MessageOfRule(rule, a.this_year)
                /\ ~main_run.read_file

\* main is as C28 says when the path exists and neither year is 0.
MainYearsAsCoded ==
    (main_run.ended # "none" /\ main_run.args.path_exists
       /\ Truthy(main_run.args.start_year) /\ Truthy(main_run.args.end_year)) =>
          LET a == main_run.args
              rule == FirstFailingRule(a)
          IN /\ rule # "none" =>
                   /\ main_run.ended = "ValueError"
                   /\ main_run.message = MessageOfRule(rule, a.this_year)
                   /\ ~main_run.read_file
             /\ rule = "none" => main_run.ended = "goes on"

\* ------------------------------------------------------------------------
\* C29: as the docstring of bls_request states, when an attempt raises a
\* generic exception (not an HTTP status error) bls_request excepts it and
\* retries, raising an exception only after 3 such attempts.
\* ------------------------------------------------------------------------
C29_ExceptionsRetried ==
    (pc = "raised" /\ responses # <<>>
       /\ IsNonHttpFailure(responses[Len(responses)])) =>
          /\ Len(responses) = 3
          /\ \A i \in DOMAIN responses : IsNonHttpFailure(responses[i])

\* ------------------------------------------------------------------------
\* C30: over any sequence of bls_request calls, process restarts and day
\* changes (a month rollover where the day of month decreases and a record
\* whose first entry is from an earlier day included), the persisted call
\* count never exceeds 500 and no more than 500 network attempts are made
\* while the current day stays the same.  The attempts of a day are numbered
\* by the persisted count, so requests.post is never reached with a count
\* above 500.
\* ------------------------------------------------------------------------
C30_QuotaNeverExceeded ==
    /\ PersistedCount(file) <= QUOTA_LIMIT
    /\ pc = "post" => PersistedCount(file) <= QUOTA_LIMIT

\* The same while the day of month has never gone down and has not changed
\* since the record was begun.
QuotaKeptOnOneDay ==
    (file.exists /\ file.first[2] = today /\ file.last[2] = today) =>
        PersistedCount(file) <= QUOTA_LIMIT

\* C31 (SpecReruns): a ledger step that ends with the quota error leaves the
\* quota file as it was when the step began (nothing appended, file not
\* removed); and the next ledger step, when it reads the day of that failure
\* in both of its methods, ends with the quota error too and leaves the file
\* as it is.
C31_QuotaErrorKeepsRecord ==
    [][/\ (pc = "increment" /\ pc' = "raised") =>
             /\ outcome' = QuotaError
             /\ file'.exists
             /\ file' = file
             /\ file' = hist.before
       /\ (pc = "increment" /\ pc' # "increment"
              /\ hist.quota_day = today /\ hist.day_at_create = today) =>
             /\ pc' = "raised"
             /\ outcome' = QuotaError
             /\ file' = file
             /\ file' = hist.before]_vars

\* A second call in a row has ended with the quota error, on the day and on
\* the record of the first, and the record is still the same.
C31_Witness ==
    /\ calls >= 2
    /\ pc = "raised"
    /\ outcome = QuotaError
    /\ hist.quota_day = today
    /\ hist.day_at_create = today
    /\ file = hist.file_at_call
    /\ file = hist.before
    /\ PersistedCount(file) = QUOTA_LIMIT

\* C32 (Spec): the two decisions of a ledger step are taken from the last
\* line of the quota file: _create_query_file removes the file exactly when
\* today is past the day of the last entry, and _increment_query_count raises
\* the quota error exactly when the last entry is of today and its count has
\* reached the limit; this also for a file with entries of different days.
C32_LastLineAuthoritative ==
    [][/\ (pc = "create" /\ pc' = "increment") =>
             (hist'.reset <=> (file.exists /\ today - file.last[2] > 0))
       /\ (pc = "increment" /\ pc' # "increment") =>
             ((pc' = "raised") <=>
                 (file.exists /\ file.last[1] >= QUOTA_LIMIT /\ today - file.last[2] = 0))]_vars

\* As coded: the day of both decisions is the day of the first line, the
\* count is the count of the last line.
FirstLineDayDecides ==
    [][/\ (pc = "create" /\ pc' = "increment") =>
             (hist'.reset <=> (file.exists /\ today - file.first[2] > 0))
       /\ (pc = "increment" /\ pc' # "increment") =>
             ((pc' = "raised") <=>
                 (file.exists /\ file.last[1] >= QUOTA_LIMIT /\ today - file.first[2] = 0))]_vars

\* A ledger step has begun on a file whose first and last line differ in
\* the day, with the last line of today.
MixedDaysReached ==
    /\ pc = "increment"
    /\ hist.before.exists
    /\ hist.before.first[2] # hist.before.last[2]
    /\ hist.before.last[2] = today
    /\ hist.day_at_create = today

\* C33 (Spec): inside bls_request the k-th attempt that ends with a status of
\* the retryable set is followed by one sleep of 2^k seconds (2, 4, 8 for
\* k = 1, 2, 3), and bls_request sleeps nowhere else: the sleeps of a call
\* are exactly 2^1 .. 2^n for its n retryable answers so far.
C33_BackoffSchedule ==
    LET retried == {i \in DOMAIN responses : IsRetryStatus(responses[i])}
    IN /\ retried = 1..Cardinality(retried)
       /\ Len(sleeps) = Cardinality(retried)
       /\ \A k \in retried : sleeps[k] = 2 ^ k
       /\ (Len(sleeps) >= 1 => sleeps[1] = 2)
       /\ (Len(sleeps) >= 2 => sleeps[2] = 4)
       /\ (Len(sleeps) >= 3 => sleeps[3] = 8)
       /\ Len(sleeps) <= 3

\* Three retryable answers in a row: the call has slept 2, 4 and 8 seconds.
C33_Witness ==
    /\ pc = "raised"
    /\ Len(responses) = 3
    /\ AllRetryable
    /\ sleeps = <<2, 4, 8>>

\* C34 (SpecExtractFair): every bls_request ends, by returning or raising,
\* after at most 3 calls of requests.post and at most 3 ledger steps, whatever
\* the network answers; and extract over N identifiers ends after at most
\* 3 * ceil(N / 50) calls of requests.post.
C34_Termination ==
    /\ [](/\ attempt <= 3
          /\ Len(responses) <= 3
          /\ Len(sent) <= 3
          /\ Len(responses) <= attempt
          /\ hist.ledger_steps <= attempt
          /\ hist.attempts <= 3 * ((Len(series_id_lst) + 49) \div 50))
    /\ (pc \in {"create", "increment", "post"}) ~> (pc \in {"returned", "raised"})
    /\ (epc \in {"loop", "call"}) ~> (epc \in {"returned", "raised"})

\* extract over more than two batches has ended after the greatest number of
\* requests the bound allows for what it got through: two batches served at
\* the third attempt, the third batch given up after three.
C34_Witness ==
    /\ epc = "raised"
    /\ Len(series_id_lst) > 2 * BATCH_SIZE
    /\ Len(batches) = 3
    /\ Len(responses) = 3
    /\ hist.ledger_steps = 3
    /\ hist.attempts = 9

\* The two processes began on a record of today, or on none, and both went
\* through both ledger methods without an exception.
BothFinishedToday ==
    /\ \A p \in Procs : procs[p].pc = "done"
    /\ hist.file_at_call.exists => hist.file_at_call.first[2] = today

\* C35 (SpecRace): when two processes interleave their ledger steps on the same
\* day and the same quota file, the persisted count after both finished is
\* the count before plus the two attempts made, so no attempt is lost and the
\* attempts of the day stay at or below 500.
C35_NoAttemptLost ==
    BothFinishedToday =>
        /\ PersistedCount(file) = PersistedCount(hist.file_at_call) + 2
        /\ PersistedCount(hist.file_at_call) + 2 <= QUOTA_LIMIT

\* C35 as the code has it: after both finished the persisted count is the
\* one written last, and it is one or two above the count before: one of
\* the two attempts can be missing from it, and the attempts of the day can
\* pass 500 by one.
C35_AttemptCanBeLost ==
    BothFinishedToday =>
        /\ file.exists
        /\ file.last = last_write
        /\ PersistedCount(file) \in {PersistedCount(hist.file_at_call) + 1,
                                     PersistedCount(hist.file_at_call) + 2}
        /\ PersistedCount(file) <= QUOTA_LIMIT
        /\ PersistedCount(hist.file_at_call) + 2 <= QUOTA_LIMIT + 1

\* Both processes found the count one below the limit and both appended the
\* limit: 501 attempts of the day, 500 counted.
C35_Witness ==
    /\ BothFinishedToday
    /\ PersistedCount(hist.file_at_call) = QUOTA_LIMIT - 1
    /\ PersistedCount(file) = QUOTA_LIMIT
    /\ procs[1].obj.last_query_count = procs[2].obj.last_query_count

\* C36 (SpecReruns): on a quota file of exactly one entry _read_query takes that
\* entry as the first and as the last (count, day) and raises nothing; the
\* next ledger step of the entry's day therefore appends count 2.
C36_SingleEntry ==
    [][/\ (pc = "create" /\ pc' # "create" /\ file.exists /\ file.n = 1) =>
             /\ pc' = "increment"
             /\ file' = file =>
                   /\ obj'.first_query_count = file.first[1]
                   /\ obj'.first_query_day = file.first[2]
                   /\ obj'.last_query_count = file.first[1]
                   /\ obj'.last_query_day = file.first[2]
       /\ (pc = "increment" /\ pc' # "increment" /\ file.exists /\ file.n = 1) =>
             /\ obj'.first_query_count = file.first[1]
             /\ obj'.first_query_day = file.first[2]
             /\ obj'.last_query_count = file.first[1]
             /\ obj'.last_query_day = file.first[2]
             /\ pc' = "post"
       /\ (pc = "increment" /\ pc' # "increment"
              /\ file.exists /\ file.n = 1 /\ hist.before = file
              /\ file.first[2] = today /\ hist.day_at_create = today) =>
             /\ file'.n = 2
             /\ file'.first = file.first
             /\ file'.last = <<file.first[1] + 1, today>>
             /\ file'.last[1] = 2]_vars

\* A ledger step found the single entry '1, today' and has appended '2, today'.
C36_Witness ==
    /\ pc = "post"
    /\ hist.before = WriteFile(<<1, today>>)
    /\ hist.day_at_create = today
    /\ obj.first_query_count = 1
    /\ obj.last_query_count = 1
    /\ file.n = 2
    /\ file.first = <<1, today>>
    /\ file.last = <<2, today>>

\* The records of an attempt that carry a request number.
RequestRecords(records) ==
    {i \in DOMAIN records :
        records[i].msg \in {"Request National", "Request State", "Request Status Code Response"}}

\* C37 (Spec): the number in the 'Request #n' records of an attempt is the call
\* count the quota file holds for that attempt.
C37_RequestNumberIsCount ==
    [][(pc = "post" /\ pc' # "post") =>
          LET records == SubSeq(log', Len(log) + 1, Len(log'))
          IN \A i \in RequestRecords(records) : records[i].n = PersistedCount(file)]_vars

\* As coded: the number is the count _increment_query_count read before it
\* appended, one below the persisted count; the two are equal only in the
\* attempt that created the file.
RequestNumberIsCountRead ==
    [][(pc = "post" /\ pc' # "post") =>
          LET records == SubSeq(log', Len(log) + 1, Len(log'))
          IN \A i \in RequestRecords(records) :
                /\ records[i].n = obj.last_query_count
                /\ records[i].n = IF obj.just_created
                                  THEN PersistedCount(file)
                                  ELSE PersistedCount(file) - 1]_vars

\* Two attempts of one call were both logged as request 1.
SameNumberTwiceReached ==
    /\ Len(responses) = 2
    /\ \E i, j \in RequestRecords(log) :
          /\ i < j
          /\ log[i].msg = log[j].msg
          /\ log[i].n = 1
          /\ log[j].n = 1
    /\ PersistedCount(file) = 2

\* C38 (SpecConvert): _convert_adjusted leaves a series name as it is whenever
\* the name does not end in one of the two terms (is_adjusted null), also
\* when a term stands in the middle of the name; a name is shortened only
\* when its is_adjusted is true or false.
C38_OtherNamesUnchanged ==
    tpc = "converted" =>
        \A i \in DOMAIN meta_in :
            /\ tagged[i].is_adjusted = PyNone => tagged[i].series = meta_in[i].series
            /\ tagged[i].series # meta_in[i].series =>
                  tagged[i].is_adjusted \in {PyBool(TRUE), PyBool(FALSE)}

\* As coded: a name is left as it is exactly when neither term occurs
\* anywhere in it.
UnchangedWithoutTerm ==
    tpc = "converted" =>
        \A i \in DOMAIN meta_in :
            LET name == Lower(meta_in[i].series)
            IN (tagged[i].series = meta_in[i].series) <=>
                  (Find(name, adjusted) = -1 /\ Find(name, not_adjusted) = -1)

\* A name with a term in the middle came back cut and with is_adjusted null.
CutInTheMiddleReached ==
    /\ tpc = "converted"
    /\ \E i \in DOMAIN meta_in :
          /\ tagged[i].is_adjusted = PyNone
          /\ Len(tagged[i].series) < Len(meta_in[i].series)
          /\ Len(tagged[i].series) > 0

\* The stages in the order main calls them.
StageOrder == <<"extract", "transform", "load">>

\* C39 (SpecMain): main calls the stages in the order extract, transform, load,
\* each at most once; when a stage raises, main logs the error and raises
\* the same exception again, and calls no later stage; load is called only
\* after extract and transform both returned; once main has ended nothing
\* more is called.
C39_StagesInOrder ==
    /\ [](/\ Len(main_run.stages) <= 3
          /\ main_run.stages = SubSeq(StageOrder, 1, Len(main_run.stages))
          /\ main_run.failed \in {"extract", "transform", "load"} =>
                /\ main_run.at = "raised"
                /\ main_run.stages[Len(main_run.stages)] = main_run.failed
                /\ main_run.errors = <<[stage |-> main_run.failed, exc |-> main_run.reraised]>>
                /\ main_run.reraised \in StageErrors
          /\ main_run.at = "returned" =>
                /\ main_run.stages = StageOrder
                /\ main_run.failed = ""
                /\ main_run.errors = <<>>)
    /\ [][main_run.at \in {"raised", "exit", "returned"} => main_run' = main_run]_vars

\* transform raised after extract returned: main logged it, raised it again,
\* and did not call load.
C39_Witness ==
    /\ main_run.at = "raised"
    /\ main_run.failed = "transform"
    /\ main_run.stages = <<"extract", "transform">>
    /\ main_run.reraised = "HTTPError"
    /\ main_run.errors = <<[stage |-> "transform", exc |-> "HTTPError"]>>

\* All three stages returned.
StagesAllRun ==
    /\ main_run.at = "returned"
    /\ main_run.stages = StageOrder

====
